---- MODULE Spec2Model ----
(***************************************************************************)
(* Event-store dashboard: the Time Travel playback controller, the route   *)
(* guard with the browser storage it reads, and the API client with its    *)
(* request/response interceptors.                                          *)
(***************************************************************************)
EXTENDS Integers, Sequences, FiniteSets, TLC

VARIABLES
    \* ---- pages/TimeTravel ----
    selectedEntityId,   \* useState<string>('')
    selectedTimestamp,  \* useState<string>(now.slice(0,16)), in minutes
    eventCount,         \* useState<number>(1): the playback cursor
    viewMode,           \* 'timestamp' | 'eventCount'
    isPlaying,          \* useState(false)
    playbackSpeed,      \* useState(1000), ms
    timelineCache,      \* query cache, key ['timeline', entityId]
    interval,           \* the setInterval of the auto-play effect, or NoInterval
    lastOp,             \* the handler that ran last
    prevJump,           \* the jump handler that ran right before lastOp, if one did
    \* ---- browser storage, route guard, API client ----
    authToken,          \* localStorage 'authToken', or Null
    user,               \* localStorage 'user', or Null
    nowMs,              \* Date.now()
    page,               \* what the router shows: "/login" or "protected"
    nodeEnv,            \* process.env.NODE_ENV
    inflight,           \* API functions whose HTTP call awaits its response
    apiEvent,           \* the last request sent or call settled by the API client
    since401,           \* a 401 was received and no login has stored a token since
    \* ---- the query cache (QueryClient) and the views that read it ----
    queries,            \* query key -> the state of its Query
    requests,           \* query key -> HTTP requests sent by its current fetch
    qEvent,             \* what the query cache did in the last step, if that was a fetch
    dataVersion,        \* query key -> the server version its cached data were read at
    \* ---- pages/Notifications, NotificationBell, the notifications backend ----
    notifMounted,       \* the Notifications page is the current route
    notifFilter,        \* Notifications: useState<'all' | 'unread'>('all')
    serverVersion,      \* number of writes the notifications backend has applied
    pendingMutations,   \* mutations whose HTTP call awaits its response
    \* ---- the router and pages/EventStreams ----
    route,              \* the page the router shows inside the Layout
    streamEntity,       \* EventStreams: useState<string>('') selectedEntityId
    isStreaming,        \* EventStreams: useState(false)
    currentBatch,       \* EventStreams: useState(1)
    batchSize,          \* useState(25)
    streamTimers,       \* live setInterval handles of the streaming effect
    batchQuery,         \* the Query of ['stream-batch', entity, batch, size] on screen
    batchHttp,          \* HTTP requests for that key awaiting their response
    \* ---- pages/Analytics ----
    tz,                 \* the browser's offset from UTC, in half days
    serverEvents,       \* the events the server holds, as the timelines return them
    dateRange,          \* Analytics: useState({ start, end }), the two date inputs
    analyticsData,      \* the analytics-data query's data for the current dateRange
    processedData,      \* the value of the processedData memo, or that it threw
    \* ---- pages/EventStreams: the entity search ----
    users,              \* the data of the ['users'] query
    searchTerm,         \* useState(''), as a sequence of characters
    filteredUsers,      \* the value of filteredUsers in the last render, or that it threw
    \* ---- pages/Settings ----
    settings,           \* useState({ apiUrl, refreshInterval, ..., debugMode })
    exportFile,         \* the file the last export downloaded, or NoFile
    \* ---- components/EditableJsonViewer ----
    viewer,             \* the props data / onSave and the state isEditing, editedData, error
    onSaveCalls,        \* the arguments the onSave callback was invoked with
    \* ---- services/api: one call of an API function, from response to return ----
    apiCall,            \* the function, the body of its 2xx response, and what it returned
    \* ---- pages/EventTimeline ----
    timelinePage,       \* the timeline-data query's data, eventTypeFilter and searchTerm
    \* ---- services/api: eventSourcingApi.getTotalEventsCount ----
    totalCount,         \* one call of getTotalEventsCount: where it is and what it has summed
    \* ---- pages/Notifications: paging ----
    notifPaging,        \* page, the server's counts and the data of the list query
    \* ---- pages/TimeTravel: the state-at-time query ----
    stateQueries        \* the cached state-at-time queries, one per query key

vars == <<selectedEntityId, selectedTimestamp, eventCount, viewMode,
          isPlaying, playbackSpeed, timelineCache, interval, lastOp, prevJump,
          authToken, user, nowMs, page, nodeEnv, inflight, apiEvent, since401,
          queries, requests, qEvent, dataVersion,
          notifMounted, notifFilter, serverVersion, pendingMutations,
          route, streamEntity, isStreaming, currentBatch, batchSize, streamTimers,
          batchQuery, batchHttp,
          tz, serverEvents, dateRange, analyticsData, processedData,
          users, searchTerm, filteredUsers,
          settings, exportFile, viewer, onSaveCalls, apiCall, timelinePage,
          totalCount, notifPaging, stateQueries>>

playbackVars == <<selectedEntityId, selectedTimestamp, eventCount, viewMode,
                  isPlaying, playbackSpeed, timelineCache, interval, prevJump,
                  stateQueries>>

cacheVars == <<queries, requests, qEvent, dataVersion>>

notifVars == <<notifMounted, notifFilter, serverVersion, pendingMutations>>

streamVars == <<streamEntity, isStreaming, currentBatch, batchSize, streamTimers,
                batchQuery, batchHttp>>

analyticsVars == <<tz, serverEvents, dateRange, analyticsData, processedData>>

searchVars == <<users, searchTerm, filteredUsers>>

settingsVars == <<settings, exportFile>>

\* the pages and components that read no query
viewerVars == <<viewer, onSaveCalls>>

restVars == <<settingsVars, viewerVars, apiCall, timelinePage, totalCount,
              notifPaging>>

\* everything outside the Time Travel page, the route guard and the API client
extVars == <<cacheVars, notifVars, route, streamVars, analyticsVars, searchVars,
             restVars>>

\* the query cache and the pages that read it
dataVars == <<cacheVars, notifVars, streamVars, analyticsVars, searchVars>>

authVars == <<authToken, user, nowMs, page, nodeEnv, inflight, apiEvent, since401>>

\* ---------------------------------------------------------------------------
\* Bounds
\* ---------------------------------------------------------------------------
MaxEvents == 5        \* longest event list the server returns
EventSpacing == 8     \* seconds between two consecutive events of a timeline
MaxSeconds == 3       \* the clock runs from 0 to MaxSeconds
MaxExp == 2           \* largest exp (seconds) of an issued token
MaxInflight == 1      \* HTTP calls awaiting their response at one time
MaxWrites == 1        \* writes the notifications backend applies
MaxMutations == 1     \* notification mutations awaiting their response at one time
MaxBatch == 2         \* batches the server has for an entity
MaxHttp == 2          \* HTTP requests for one stream batch awaiting their response
MaxDay == 1           \* the date inputs take the days 0..MaxDay
MaxEventList == 2     \* longest event list the timelines return together
MaxUsers == 2         \* longest user list the server returns
MaxText == 2          \* longest text typed into the JSON textarea
MaxStateQueries == 2  \* state-at-time queries the cache holds at one time
MaxSaves == 1         \* invocations of onSave that are recorded

\* ---------------------------------------------------------------------------
\* Values
\* ---------------------------------------------------------------------------
Undefined == [undefined |-> TRUE]
NoInterval == [cleared |-> TRUE]
Entities == {"u1", "u2"}
PlaybackSpeeds == {2000, 1000, 500, 250}

RECURSIVE SeqsUpTo(_, _)
\* the sequences over S of length 0..n
SeqsUpTo(S, n) ==
    IF n = 0 THEN {<< >>}
    ELSE LET shorter == SeqsUpTo(S, n - 1)
         IN  shorter \cup {Append(q, x) : q \in {r \in shorter : Len(r) = n - 1}, x \in S}

Min(a, b) == IF a < b THEN a ELSE b
Max(a, b) == IF a > b THEN a ELSE b

\* timestamp.slice(0, 16): an ISO timestamp cut to the minute
Slice16(seconds) == seconds \div 60

\* The EventTimeline the server returns for an entity that has n events.
ServerTimeline(n) ==
    [events |-> [i \in 1..n |-> [timestamp |-> i * EventSpacing]],
     totalEvents |-> n]

\* const { data: timeline } = useQuery({ queryKey: ['timeline', selectedEntityId], ... })
Timeline(entityId, cache) ==
    IF entityId = "" THEN Undefined ELSE cache[entityId]

\* timeline?.events is truthy (an empty array is truthy)
HasEvents(timeline) == timeline # Undefined

\* timeline.events.length
NumEvents(timeline) == Len(timeline.events)

\* ---------------------------------------------------------------------------
\* pages/TimeTravel: cursor functions
\* ---------------------------------------------------------------------------
StepForwardUnclamped(prev, timeline) == prev + 1

StepForwardCursor(prev, timeline) == Min(prev + 1, NumEvents(timeline))

StepBackwardCursor(prev) == Max(prev - 1, 1)

JumpEndZeroBased(timeline) == NumEvents(timeline) - 1

JumpEndCursor(timeline) == NumEvents(timeline)

TickStopsAtEnd(prev, maxEvents) == IF prev >= maxEvents THEN prev ELSE prev + 1

TickCursor(prev, maxEvents) == IF prev >= maxEvents THEN 1 ELSE prev + 1

\* max={timeline?.totalEvents || 1}
SliderMax(timeline) ==
    IF timeline = Undefined \/ timeline.totalEvents = 0 THEN 1
    ELSE timeline.totalEvents

\* The auto-play effect, run after a render with these dependencies: the
\* previous interval is cleared and a new one is set unless the effect returns
\* early.
AutoPlayNeverCleared(playing, timeline, speed, mode) ==
    IF ~HasEvents(timeline) \/ mode # "eventCount"
    THEN NoInterval
    ELSE [maxEvents |-> NumEvents(timeline), delay |-> speed]

AutoPlayEffect(playing, timeline, speed, mode) ==
    IF ~playing \/ ~HasEvents(timeline) \/ mode # "eventCount"
    THEN NoInterval
    ELSE [maxEvents |-> NumEvents(timeline), delay |-> speed]

\* Every render commits the effect for the new state.
Render ==
    /\ route = "/time-travel"
    /\ UNCHANGED authVars
    /\ UNCHANGED extVars
    /\ prevJump' = IF lastOp \in {"jump_start", "jump_end"} THEN lastOp ELSE "none"
    /\ interval' = AutoPlayEffect(isPlaying',
                               Timeline(selectedEntityId', timelineCache'),
                               playbackSpeed', viewMode')

CurrentTimeline == Timeline(selectedEntityId, timelineCache)

\* The playback buttons are rendered iff viewMode === 'eventCount' && selectedEntityId
ControlsShown == viewMode = "eventCount" /\ selectedEntityId # ""

\* ---------------------------------------------------------------------------
\* pages/TimeTravel: handlers
\* ---------------------------------------------------------------------------
SelectEntity(e) ==
    /\ selectedEntityId' = e
    /\ lastOp' = "select_entity"
    /\ UNCHANGED <<selectedTimestamp, eventCount, viewMode, isPlaying,
                   playbackSpeed, timelineCache>>
    /\ Render

\* The timeline query of the selected entity resolves (first load or refetch).
TimelineFetched(n) ==
    /\ selectedEntityId # ""
    /\ timelineCache' = [timelineCache EXCEPT ![selectedEntityId] = ServerTimeline(n)]
    /\ lastOp' = "timeline_loaded"
    /\ UNCHANGED <<selectedEntityId, selectedTimestamp, eventCount, viewMode,
                   isPlaying, playbackSpeed>>
    /\ Render

SetViewMode(m) ==
    /\ viewMode' = m
    /\ lastOp' = "set_view_mode"
    /\ UNCHANGED <<selectedEntityId, selectedTimestamp, eventCount, isPlaying,
                   playbackSpeed, timelineCache>>
    /\ Render

SetSelectedTimestamp(minute) ==
    /\ viewMode = "timestamp"
    /\ selectedTimestamp' = minute
    /\ lastOp' = "set_timestamp"
    /\ UNCHANGED <<selectedEntityId, eventCount, viewMode, isPlaying,
                   playbackSpeed, timelineCache>>
    /\ Render

SliderChange(v) ==
    /\ viewMode = "eventCount"
    /\ v \in 1..SliderMax(CurrentTimeline)
    /\ eventCount' = v
    /\ lastOp' = "slider"
    /\ UNCHANGED <<selectedEntityId, selectedTimestamp, viewMode, isPlaying,
                   playbackSpeed, timelineCache>>
    /\ Render

SetPlaybackSpeed(s) ==
    /\ ControlsShown
    /\ playbackSpeed' = s
    /\ lastOp' = "set_speed"
    /\ UNCHANGED <<selectedEntityId, selectedTimestamp, eventCount, viewMode,
                   isPlaying, timelineCache>>
    /\ Render

handlePlayPause ==
    /\ ControlsShown
    /\ isPlaying' = ~isPlaying
    /\ lastOp' = "play_pause"
    /\ UNCHANGED <<selectedEntityId, selectedTimestamp, eventCount, viewMode,
                   playbackSpeed, timelineCache>>
    /\ Render

handleStepForward ==
    /\ ControlsShown
    /\ eventCount' = IF HasEvents(CurrentTimeline)
                     THEN StepForwardCursor(eventCount, CurrentTimeline)
                     ELSE eventCount
    /\ lastOp' = "step_forward"
    /\ UNCHANGED <<selectedEntityId, selectedTimestamp, viewMode, isPlaying,
                   playbackSpeed, timelineCache>>
    /\ Render

handleStepBackward ==
    /\ ControlsShown
    /\ eventCount' = StepBackwardCursor(eventCount)
    /\ lastOp' = "step_backward"
    /\ UNCHANGED <<selectedEntityId, selectedTimestamp, viewMode, isPlaying,
                   playbackSpeed, timelineCache>>
    /\ Render

handleJumpToStart ==
    /\ ControlsShown
    /\ eventCount' = 1
    /\ isPlaying' = FALSE
    /\ lastOp' = "jump_start"
    /\ UNCHANGED <<selectedEntityId, selectedTimestamp, viewMode,
                   playbackSpeed, timelineCache>>
    /\ Render

handleJumpToEnd ==
    /\ ControlsShown
    /\ IF HasEvents(CurrentTimeline)
       THEN /\ eventCount' = JumpEndCursor(CurrentTimeline)
            /\ isPlaying' = FALSE
       ELSE UNCHANGED <<eventCount, isPlaying>>
    /\ lastOp' = "jump_end"
    /\ UNCHANGED <<selectedEntityId, selectedTimestamp, viewMode,
                   playbackSpeed, timelineCache>>
    /\ Render

\* A click on entry #eventIndex+1 of the rendered timeline list.
handleTimestampChange(eventIndex) ==
    /\ selectedEntityId # ""
    /\ HasEvents(CurrentTimeline)
    /\ eventIndex + 1 \in 1..NumEvents(CurrentTimeline)
    /\ selectedTimestamp' = Slice16(CurrentTimeline.events[eventIndex + 1].timestamp)
    /\ eventCount' = eventIndex + 1
    /\ lastOp' = "timeline_click"
    /\ UNCHANGED <<selectedEntityId, viewMode, isPlaying, playbackSpeed,
                   timelineCache>>
    /\ Render

\* The interval callback of the auto-play effect.
Tick ==
    /\ interval # NoInterval
    /\ eventCount' = TickCursor(eventCount, interval.maxEvents)
    /\ lastOp' = "tick"
    /\ UNCHANGED <<selectedEntityId, selectedTimestamp, viewMode, isPlaying,
                   playbackSpeed, timelineCache>>
    /\ Render


\* ---------------------------------------------------------------------------
\* utils/auth: tokens
\* ---------------------------------------------------------------------------
\* A token is the sequence of its dot-separated parts, token.split('.'); a part
\* records whether atob() accepts it, whether JSON.parse() accepts the decoded
\* text, and the parsed value.
Null == << >>

Part(b64, json, value) == [base64 |-> b64, json |-> json, value |-> value]

JsonNull == [null |-> TRUE]

Opaque == Part(TRUE, TRUE, [alg |-> 1])

Jwt(exp) == <<Opaque, Part(TRUE, TRUE, [exp |-> exp]), Opaque>>

TwoPartToken == <<Opaque, Part(TRUE, TRUE, [exp |-> MaxExp])>>

OnePartToken == <<Opaque>>

BadBase64Token == <<Opaque, Part(FALSE, FALSE, JsonNull), Opaque>>

BadJsonToken == <<Opaque, Part(TRUE, FALSE, JsonNull), Opaque>>

NullPayloadToken == <<Opaque, Part(TRUE, TRUE, JsonNull), Opaque>>

NoExpToken == <<Opaque, Part(TRUE, TRUE, [sub |-> 1]), Opaque>>

Tokens ==
    {Jwt(e) : e \in 1..MaxExp} \cup
    {TwoPartToken, OnePartToken, BadBase64Token, BadJsonToken,
     NullPayloadToken, NoExpToken}

\* decodeJWT: the parsed payload, or JsonNull where the code returns null
\* (split('.')[1] undefined, atob or JSON.parse throwing, all caught).
decodeJWT(token) ==
    IF Len(token) < 2 THEN JsonNull
    ELSE IF ~token[2].base64 THEN JsonNull
    ELSE IF ~token[2].json THEN JsonNull
    ELSE token[2].value

isTokenExpiredInclusive(token, now) ==
    LET decoded == decodeJWT(token) IN
    IF decoded = JsonNull THEN TRUE
    ELSE IF "exp" \notin DOMAIN decoded THEN FALSE
    ELSE decoded.exp * 1000 <= now

\* isTokenExpired: decoded.exp < Date.now() / 1000; a comparison with a
\* missing exp (undefined) is false.
isTokenExpired(token, now) ==
    LET decoded == decodeJWT(token) IN
    IF decoded = JsonNull THEN TRUE
    ELSE IF "exp" \notin DOMAIN decoded THEN FALSE
    ELSE decoded.exp * 1000 < now

\* ---------------------------------------------------------------------------
\* components/PrivateRoute
\* ---------------------------------------------------------------------------
GuardPresenceOnly(token, now) == token # Null

\* the negation of  !token || isTokenExpired(token)
GuardAllows(token, now) == token # Null /\ ~isTokenExpired(token, now)

\* A protected route is rendered: PrivateRoute runs its check.
PrivateRoute ==
    /\ IF GuardAllows(authToken, nowMs)
       THEN /\ page' = "protected"
            /\ UNCHANGED <<authToken, user>>
       ELSE /\ authToken' = Null
            /\ user' = Null
            /\ page' = "/login"
    /\ lastOp' = "navigate"
    /\ UNCHANGED <<nowMs, nodeEnv, inflight, apiEvent, since401>>
    /\ UNCHANGED <<selectedEntityId, selectedTimestamp, eventCount, viewMode,
                   isPlaying, playbackSpeed, timelineCache, interval, prevJump,
                   stateQueries>>
    /\ UNCHANGED extVars

\* components/Layout handleLogout
handleLogout ==
    /\ page = "protected"
    /\ authToken' = Null
    /\ user' = Null
    /\ page' = "/login"
    /\ lastOp' = "logout"
    /\ UNCHANGED <<nowMs, nodeEnv, inflight, apiEvent, since401>>
    /\ UNCHANGED <<selectedEntityId, selectedTimestamp, eventCount, viewMode,
                   isPlaying, playbackSpeed, timelineCache, interval, prevJump,
                   stateQueries>>
    /\ UNCHANGED extVars

\* Time passes, half a second at a time.
ClockAdvance ==
    /\ nowMs + 500 <= MaxSeconds * 1000
    /\ nowMs' = nowMs + 500
    /\ lastOp' = "clock"
    /\ UNCHANGED <<authToken, user, page, nodeEnv, inflight, apiEvent, since401>>
    /\ UNCHANGED <<selectedEntityId, selectedTimestamp, eventCount, viewMode,
                   isPlaying, playbackSpeed, timelineCache, interval, prevJump,
                   stateQueries>>
    /\ UNCHANGED extVars

\* ---------------------------------------------------------------------------
\* services/api
\* ---------------------------------------------------------------------------
AuthApiFunctions == {"authApi.login", "authApi.register"}

ApiFunctions ==
    AuthApiFunctions \cup
    {"eventSourcingApi.replayEvents", "eventSourcingApi.getStateAtTime",
     "eventSourcingApi.getStateAfterEvents", "eventSourcingApi.getEventTimeline",
     "eventSourcingApi.compareStates", "eventSourcingApi.getEventStatistics",
     "eventSourcingApi.getEntityEvents", "eventSourcingApi.getStreamBatch",
     "usersApi.getAllUsers", "usersApi.getCurrentUser", "usersApi.getUsersByRole",
     "usersApi.updateUser", "healthApi.getHealth",
     "notificationsApi.getNotifications", "notificationsApi.getUnreadCount",
     "notificationsApi.markAsRead", "notificationsApi.markAllAsRead",
     "notificationsApi.deleteNotification",
     "notificationsApi.createTestNotification"}

\* The functions whose catch block returns a value instead of rethrowing.
SwallowingFunctions ==
    {"usersApi.getAllUsers", "usersApi.getUsersByRole",
     "notificationsApi.getNotifications", "notificationsApi.getUnreadCount"}

\* How an HTTP call ends: a 2xx response, a 401, another error status, or no
\* response at all (connection failure, the 10 s timeout).
Outcomes == {"ok", "unauthorized", "server", "network"}

NoHeader == << >>

Bearer(token) == <<"Bearer", token>>

NoApiEvent == [kind |-> "none", header |-> NoHeader, outcome |-> "none", result |-> "none"]

RequestHeaderAlways(token) == Bearer(token)

\* api.interceptors.request: the Authorization header of the outgoing request
RequestHeader(token) == IF token # Null THEN Bearer(token) ELSE NoHeader

TokenKeptOn401(outcome, token) == token

\* api.interceptors.response: what is left of 'authToken' after the response
TokenAfterResponse(outcome, token) ==
    IF outcome = "unauthorized" THEN Null ELSE token

\* api.interceptors.response: window.location.href = '/login' in production
PageAfterResponse(outcome, env, current) ==
    IF outcome = "unauthorized" /\ env = "production" THEN "/login" ELSE current

\* api.interceptors.response: the error the interceptor rejects with
InterceptedError(outcome) ==
    IF outcome = "network" THEN "rejected_network"
    ELSE IF outcome = "unauthorized" THEN "rejected_unauthorized"
    ELSE "rejected_server"

CallResultSwallowAll(fn, outcome) ==
    IF outcome = "ok" THEN "payload" ELSE "substitute"

\* try { ... return response.data } catch (error) { throw error | return fallback }
CallResult(fn, outcome) ==
    IF outcome = "ok" THEN "payload"
    ELSE IF fn \in SwallowingFunctions THEN "substitute"
    ELSE InterceptedError(outcome)

\* An API function is called and its request leaves through the request
\* interceptor.  Only the auth functions are called from the public pages.
ApiRequest(fn) ==
    /\ fn \notin inflight
    /\ Cardinality(inflight) < MaxInflight
    /\ fn \in AuthApiFunctions \/ page = "protected"
    /\ inflight' = inflight \cup {fn}
    /\ apiEvent' = [kind |-> "sent", header |-> RequestHeader(authToken),
                    outcome |-> "none", result |-> "none"]
    /\ lastOp' = "api_request"
    /\ UNCHANGED <<authToken, user, nowMs, page, nodeEnv, since401>>
    /\ UNCHANGED <<selectedEntityId, selectedTimestamp, eventCount, viewMode,
                   isPlaying, playbackSpeed, timelineCache, interval, prevJump,
                   stateQueries>>
    /\ UNCHANGED extVars

\* JSON.stringify of the signed-in user's profile
Profile == <<"profile">>

\* The Login page stores the token and the profile of a successful sign-in.
LoginStores(fn, outcome) == fn = "authApi.login" /\ outcome = "ok"

\* The tokens the server may put in the response to fn.
IssuedTokens(fn, outcome) == IF LoginStores(fn, outcome) THEN Tokens ELSE {Null}

\* The HTTP call of fn ends: the response interceptor runs, then the catch
\* block of fn, then the caller's continuation.
ApiResponse(fn, outcome, issued) ==
    /\ fn \in inflight
    /\ inflight' = inflight \ {fn}
    /\ apiEvent' = [kind |-> "settled", header |-> NoHeader,
                    outcome |-> outcome, result |-> CallResult(fn, outcome)]
    /\ page' = PageAfterResponse(outcome, nodeEnv, page)
    /\ IF LoginStores(fn, outcome)
       THEN /\ authToken' = issued
            /\ user' = Profile
            /\ since401' = FALSE
       ELSE /\ authToken' = TokenAfterResponse(outcome, authToken)
            /\ user' = user
            /\ since401' = (since401 \/ outcome = "unauthorized")
    /\ lastOp' = "api_response"
    /\ UNCHANGED <<nowMs, nodeEnv>>
    /\ UNCHANGED <<selectedEntityId, selectedTimestamp, eventCount, viewMode,
                   isPlaying, playbackSpeed, timelineCache, interval, prevJump,
                   stateQueries>>
    /\ UNCHANGED extVars

\* ---------------------------------------------------------------------------
\* The query cache: new QueryClient(...) in App.tsx and the useQuery calls of
\* the Dashboard, the NotificationBell and the Analytics page
\* ---------------------------------------------------------------------------
QueryKeys == {"health", "unread-count", "analytics-users"}

\* The queries under ['notifications']: the page's lists ['notifications',
\* filter, page] and the bell's ['notifications', 'unread-count'].
NotifFilters == {"all", "unread"}

NotifListKey(filter) ==
    IF filter = "all" THEN "notifications/all/1" ELSE "notifications/unread/1"

NotifListKeys == {NotifListKey(f) : f \in NotifFilters}

NotifKeys == NotifListKeys \cup {"unread-count"}

AllKeys == QueryKeys \cup NotifKeys

\* defaultOptions.queries.retry
DefaultRetry == 1

\* The retry option a query runs with: its own, or the client's default.
Retry(key) ==
    IF key = "analytics-users" THEN 0        \* retry: false
    ELSE IF key = "health" THEN 1            \* retry: 1
    ELSE DefaultRetry

\* The API function a query's queryFn calls.
QueryFn(key) ==
    IF key = "health" THEN "healthApi.getHealth"
    ELSE IF key = "unread-count" THEN "notificationsApi.getUnreadCount"
    ELSE IF key \in NotifListKeys THEN "notificationsApi.getNotifications"
    ELSE "usersApi.getAllUsers"

Rejections == {"rejected_network", "rejected_unauthorized", "rejected_server"}

\* What the queryFn's promise settles with.  The Analytics users query wraps
\* the call in its own try/catch and returns [] when the call throws.
QueryFnResult(key, outcome) ==
    LET r == CallResult(QueryFn(key), outcome)
    IN  IF key = "analytics-users" /\ r \in Rejections THEN "substitute" ELSE r

\* A Query before its first fetch.
InitialQuery ==
    [status |-> "pending", fetchStatus |-> "idle", failureCount |-> 0,
     data |-> "undefined", error |-> "none", isInvalidated |-> FALSE]

\* The cache retries a rejected queryFn while failureCount < retry, whatever
\* the rejection was.
ShouldRetry(key, failureCount, r) ==
    r \in Rejections /\ failureCount < Retry(key)

\* A Query when its fetch starts: data are kept, an error without data is not.
StartFetch(q) ==
    [q EXCEPT !.fetchStatus = "fetching",
              !.failureCount = 0,
              !.status = IF q.data = "undefined" THEN "pending" ELSE @,
              !.error = IF q.data = "undefined" THEN "none" ELSE @]

\* A Query when the queryFn of its running fetch settles with r.
SettleAttempt(q, key, r) ==
    IF r \notin Rejections
    THEN [q EXCEPT !.status = "success", !.fetchStatus = "idle",
                   !.failureCount = 0, !.data = r, !.error = "none",
                   !.isInvalidated = FALSE]
    ELSE IF ShouldRetry(key, q.failureCount, r)
    THEN [q EXCEPT !.failureCount = @ + 1]
    ELSE [q EXCEPT !.status = "error", !.fetchStatus = "idle",
                   !.failureCount = @ + 1, !.error = r]

\* Dashboard, the System Uptime stat: what it shows for the health query.
HealthValue(q) ==
    IF q.data # "undefined" THEN "uptime"
    ELSE IF q.error # "none" THEN "Error" ELSE "N/A"

HealthChangeTypeWithoutError(q) ==
    IF q.data # "undefined" THEN "positive" ELSE "neutral"

\* Dashboard, the System Uptime stat: changeType of the health query's state.
HealthChangeType(q) ==
    IF q.data # "undefined" THEN "positive"
    ELSE IF q.error # "none" THEN "negative" ELSE "neutral"

\* NotificationBell: unreadData?.unreadCount || 0, and the badge drawn only for
\* a count above 0.  The server's payload reports unread notifications; the
\* fallback of getUnreadCount is { unreadCount: 0 }.
BellBadge(q) == IF q.data = "payload" THEN "count" ELSE "absent"

NoQueryEvent == [kind |-> "none", key |-> "none", outcome |-> "none", retried |-> FALSE]

\* The ['notifications'] queries that have an observer: the bell is part of
\* the Layout, the page's list is observed while the page is mounted.
ObservedKeys(mounted, filter) ==
    {"unread-count"} \cup (IF mounted THEN {NotifListKey(filter)} ELSE {})

ActiveKeys == ObservedKeys(notifMounted, notifFilter)

\* A component mounts, or the refetchInterval of a poll elapses: the query
\* starts a fetch unless one is running, and the queryFn sends its request.
QueryFetch(key) ==
    /\ page = "protected"
    /\ key \in QueryKeys \/ key \in ActiveKeys
    /\ queries[key].fetchStatus = "idle"
    /\ queries' = [queries EXCEPT ![key] = StartFetch(@)]
    /\ requests' = [requests EXCEPT ![key] = 1]
    /\ qEvent' = [kind |-> "fetch", key |-> key, outcome |-> "none", retried |-> FALSE]
    /\ lastOp' = "query_fetch"
    /\ UNCHANGED dataVersion
    /\ UNCHANGED notifVars
    /\ UNCHANGED authVars
    /\ UNCHANGED <<route, streamVars, analyticsVars, searchVars, restVars>>
    /\ UNCHANGED playbackVars

\* The HTTP call of a running fetch ends: the response interceptor runs, the
\* queryFn settles, and the cache retries or settles the Query.  In production
\* a 401 reloads the application at /login, which starts with an empty cache.
QueryResponse(key, outcome) ==
    LET r == QueryFnResult(key, outcome)
        reload == PageAfterResponse(outcome, nodeEnv, page) # page
        retry == ~reload /\ ShouldRetry(key, queries[key].failureCount, r)
    IN  /\ queries[key].fetchStatus = "fetching"
        /\ authToken' = TokenAfterResponse(outcome, authToken)
        /\ page' = PageAfterResponse(outcome, nodeEnv, page)
        /\ since401' = (since401 \/ outcome = "unauthorized")
        /\ queries' = IF reload THEN [k \in AllKeys |-> InitialQuery]
                      ELSE [queries EXCEPT ![key] = SettleAttempt(@, key, r)]
        /\ requests' = IF reload THEN [k \in AllKeys |-> 0]
                       ELSE IF retry THEN [requests EXCEPT ![key] = @ + 1]
                       ELSE requests
        /\ dataVersion' = IF reload THEN [k \in AllKeys |-> 0]
                          ELSE IF r \in Rejections THEN dataVersion
                          ELSE [dataVersion EXCEPT ![key] =
                                   IF r = "payload" THEN serverVersion ELSE 0]
        /\ qEvent' = [kind |-> "response", key |-> key, outcome |-> outcome,
                      retried |-> retry]
        /\ lastOp' = "query_response"
        /\ UNCHANGED notifVars
        /\ UNCHANGED <<user, nowMs, nodeEnv, inflight, apiEvent>>
        /\ UNCHANGED <<route, streamVars, analyticsVars, searchVars, restVars>>
        /\ UNCHANGED playbackVars

\* ---------------------------------------------------------------------------
\* pages/Notifications and components/NotificationBell
\* ---------------------------------------------------------------------------
\* The mutationFn of the four useMutation calls of the page and of the panel.
MutationFunctions ==
    {"notificationsApi.markAsRead", "notificationsApi.markAllAsRead",
     "notificationsApi.deleteNotification",
     "notificationsApi.createTestNotification"}

\* A query that gets an enabled observer fetches when it has no data or its
\* data are invalidated, unless its fetch is running.
FetchesOnSubscribe(q) ==
    q.fetchStatus = "idle" /\ (q.data = "undefined" \/ q.isInvalidated)

\* The cache after the observed keys changed from old to new.
Subscribe(qs, old, new) ==
    [k \in AllKeys |->
        IF k \in (new \ old) /\ FetchesOnSubscribe(qs[k])
        THEN StartFetch(qs[k]) ELSE qs[k]]

RequestsAfterSubscribe(qs, reqs, old, new) ==
    [k \in AllKeys |->
        IF k \in (new \ old) /\ FetchesOnSubscribe(qs[k]) THEN 1 ELSE reqs[k]]

\* A Query object exists for a key once a fetch of it was started.
Cached(reqs, key) == reqs[key] > 0

InvalidateListsOnly(qs, reqs, active) ==
    [k \in AllKeys |->
        IF k \notin NotifListKeys THEN qs[k]
        ELSE IF k \in active
        THEN [StartFetch(qs[k]) EXCEPT !.isInvalidated = TRUE]
        ELSE IF Cached(reqs, k) THEN [qs[k] EXCEPT !.isInvalidated = TRUE]
        ELSE qs[k]]

\* queryClient.invalidateQueries({ queryKey: ['notifications'] }): every
\* Query whose key starts with 'notifications' is marked invalidated, and
\* those with an enabled observer are fetched again.
InvalidateQueries(qs, reqs, active) ==
    [k \in AllKeys |->
        IF k \notin NotifKeys THEN qs[k]
        ELSE IF k \in active
        THEN [StartFetch(qs[k]) EXCEPT !.isInvalidated = TRUE]
        ELSE IF Cached(reqs, k) THEN [qs[k] EXCEPT !.isInvalidated = TRUE]
        ELSE qs[k]]

\* Notifications: the branch 'error ?' of the list body.
ShowsError(qs, filter) == qs[NotifListKey(filter)].error # "none"

\* The observed keys change: shared by the handlers below.
Observe(mounted, filter) ==
    LET new == ObservedKeys(mounted, filter)
    IN  /\ queries' = Subscribe(queries, ActiveKeys, new)
        /\ requests' = RequestsAfterSubscribe(queries, requests, ActiveKeys, new)
        /\ notifMounted' = mounted
        /\ notifFilter' = filter
        /\ qEvent' = NoQueryEvent
        /\ lastOp' = "notifications"
        /\ UNCHANGED <<dataVersion, serverVersion, pendingMutations>>
        /\ UNCHANGED authVars
        /\ UNCHANGED <<route, streamVars, analyticsVars, searchVars, restVars>>
        /\ UNCHANGED playbackVars

\* The Notifications page mounts, with its initial state.
NotificationsMount ==
    /\ page = "protected"
    /\ ~notifMounted
    /\ Observe(TRUE, "all")

\* The Notifications page unmounts.
NotificationsUnmount ==
    /\ notifMounted
    /\ Observe(FALSE, "all")

\* Notifications filter tabs: setFilter(f); setPage(1)
NotificationsSetFilter(f) ==
    /\ notifMounted
    /\ Observe(TRUE, f)

\* handleMarkAsRead / handleMarkAllAsRead / handleDelete / handleCreateTest:
\* mutation.mutate() calls the API function, whose request leaves.
MutationRequest(fn) ==
    /\ page = "protected"
    /\ notifMounted
    /\ fn \notin pendingMutations
    /\ Cardinality(pendingMutations) < MaxMutations
    /\ pendingMutations' = pendingMutations \cup {fn}
    /\ qEvent' = NoQueryEvent
    /\ lastOp' = "notifications"
    /\ UNCHANGED <<notifMounted, notifFilter, serverVersion>>
    /\ UNCHANGED <<queries, requests, dataVersion>>
    /\ UNCHANGED authVars
    /\ UNCHANGED <<route, streamVars, analyticsVars, searchVars, restVars>>
    /\ UNCHANGED playbackVars

\* The HTTP call of a mutation ends: the response interceptor runs, the API
\* function returns or rethrows, and onSuccess - the only callback the
\* mutations have - invalidates the ['notifications'] queries.
MutationResponse(fn, outcome) ==
    LET ok == CallResult(fn, outcome) \notin Rejections
    IN  /\ fn \in pendingMutations
        /\ ok => serverVersion < MaxWrites
        /\ pendingMutations' = pendingMutations \ {fn}
        /\ serverVersion' = IF ok THEN serverVersion + 1 ELSE serverVersion
        /\ queries' = IF ok THEN InvalidateQueries(queries, requests, ActiveKeys)
                      ELSE queries
        /\ requests' = IF ok
                       THEN [k \in AllKeys |->
                               IF k \in NotifKeys \cap ActiveKeys THEN 1
                               ELSE requests[k]]
                       ELSE requests
        /\ qEvent' = NoQueryEvent
        /\ authToken' = TokenAfterResponse(outcome, authToken)
        /\ page' = PageAfterResponse(outcome, nodeEnv, page)
        /\ since401' = (since401 \/ outcome = "unauthorized")
        /\ lastOp' = "notifications"
        /\ UNCHANGED <<notifMounted, notifFilter, dataVersion>>
        /\ UNCHANGED <<user, nowMs, nodeEnv, inflight, apiEvent>>
        /\ UNCHANGED <<route, streamVars, analyticsVars, searchVars, restVars>>
        /\ UNCHANGED playbackVars

\* ---------------------------------------------------------------------------
\* pages/EventStreams: the stream-batch query and the streaming effect.  The
\* model follows the Query of the key that is on screen; the Query of a key
\* that was left is dropped, and coming back to it is a first visit.
\* ---------------------------------------------------------------------------
\* enabled: !!selectedEntityId - no entity, no fetch
DisabledBatchQuery == [fetchStatus |-> "idle", data |-> "undefined"]

StaleBatchQuery(entity) ==
    IF entity = "" THEN DisabledBatchQuery ELSE batchQuery

\* The Query of a key that comes on screen, and the requests its first fetch sends.
FreshBatchQuery(entity) ==
    IF entity = "" THEN DisabledBatchQuery
    ELSE [fetchStatus |-> "fetching", data |-> "undefined"]

FreshBatchHttp(entity) == IF entity = "" THEN 0 ELSE 1

\* setInterval(...) of an effect run that passes its guard
TimersCreated(streaming, entity) == IF streaming /\ entity # "" THEN 1 ELSE 0

\* clearInterval(interval) of the cleanup of the previous effect run
TimersCleared(timers) == IF timers > 0 THEN 1 ELSE 0

StreamingEffectWithoutCleanup(timers, depsChanged, streaming, entity) ==
    IF depsChanged THEN timers + TimersCreated(streaming, entity) ELSE timers

\* React.useEffect(..., [isStreaming, selectedEntityId, refetchBatch]): when
\* a dependency changed, the cleanup of the last run, then the effect again.
StreamingEffect(timers, depsChanged, streaming, entity) ==
    IF depsChanged
    THEN timers - TimersCleared(timers) + TimersCreated(streaming, entity)
    ELSE timers

\* refetchBatch(): a refetch() without options has cancelRefetch true.  A
\* running fetch of a Query that has data is cancelled and a new one is
\* started; the queryFn does not pass the abort signal to axios, so the
\* request of the cancelled fetch stays out.  A running first fetch is joined.
RefetchStarts(q) == q.fetchStatus = "idle" \/ q.data # "undefined"

Refetch(q) == IF RefetchStarts(q) THEN [q EXCEPT !.fetchStatus = "fetching"] ELSE q

HttpAfterRefetch(q, http) == IF RefetchStarts(q) THEN http + 1 ELSE http

\* The key on screen changes from (entity, batch, size) to (e, b, s), or stays.
ShowBatch(e, b, s) ==
    IF <<e, b, s>> # <<streamEntity, currentBatch, batchSize>>
    THEN /\ batchQuery' = FreshBatchQuery(e)
         /\ batchHttp' = FreshBatchHttp(e)
    ELSE UNCHANGED <<batchQuery, batchHttp>>

StreamFrame ==
    /\ route = "/streams"
    /\ UNCHANGED route
    /\ UNCHANGED <<cacheVars, notifVars, analyticsVars, searchVars, restVars>>
    /\ UNCHANGED authVars
    /\ UNCHANGED playbackVars

\* onClick of a user in the entity list
StreamSelectEntity(e) ==
    /\ StreamFrame
    /\ streamEntity' = e
    /\ currentBatch' = 1
    /\ ShowBatch(e, 1, batchSize)
    /\ streamTimers' = StreamingEffect(streamTimers, e # streamEntity, isStreaming, e)
    /\ lastOp' = "stream_select"
    /\ UNCHANGED <<isStreaming, batchSize>>

handleStartStreaming ==
    /\ StreamFrame
    /\ streamEntity # "" /\ ~isStreaming
    /\ isStreaming' = TRUE
    /\ streamTimers' = StreamingEffect(streamTimers, TRUE, TRUE, streamEntity)
    /\ lastOp' = "stream_start"
    /\ UNCHANGED <<streamEntity, currentBatch, batchSize, batchQuery, batchHttp>>

handleStopStreaming ==
    /\ StreamFrame
    /\ isStreaming
    /\ isStreaming' = FALSE
    /\ streamTimers' = StreamingEffect(streamTimers, TRUE, FALSE, streamEntity)
    /\ lastOp' = "stream_stop"
    /\ UNCHANGED <<streamEntity, currentBatch, batchSize, batchQuery, batchHttp>>

\* The 3 s interval elapses: refetchBatch()
StreamTick ==
    /\ StreamFrame
    /\ streamTimers > 0
    /\ HttpAfterRefetch(batchQuery, batchHttp) <= MaxHttp
    /\ batchQuery' = Refetch(batchQuery)
    /\ batchHttp' = HttpAfterRefetch(batchQuery, batchHttp)
    /\ lastOp' = "stream_tick"
    /\ UNCHANGED <<streamEntity, isStreaming, currentBatch, batchSize, streamTimers>>

\* setCurrentBatch(1); refetchBatch() - the refetch is the one of the key on
\* screen when the button was clicked
handleResetStream ==
    /\ StreamFrame
    /\ streamEntity # ""
    /\ HttpAfterRefetch(batchQuery, batchHttp) <= MaxHttp
    /\ currentBatch' = 1
    /\ IF currentBatch # 1
       THEN ShowBatch(streamEntity, 1, batchSize)
       ELSE /\ batchQuery' = Refetch(batchQuery)
            /\ batchHttp' = HttpAfterRefetch(batchQuery, batchHttp)
    /\ lastOp' = "stream_reset"
    /\ UNCHANGED <<streamEntity, isStreaming, batchSize, streamTimers>>

handlePreviousBatch ==
    /\ StreamFrame
    /\ streamEntity # ""
    /\ currentBatch' = IF currentBatch > 1 THEN currentBatch - 1 ELSE currentBatch
    /\ ShowBatch(streamEntity, currentBatch', batchSize)
    /\ lastOp' = "stream_previous"
    /\ UNCHANGED <<streamEntity, isStreaming, batchSize, streamTimers>>

handleNextBatch ==
    /\ StreamFrame
    /\ streamEntity # ""
    /\ currentBatch < MaxBatch
    /\ currentBatch' = IF batchQuery.data = "more" THEN currentBatch + 1 ELSE currentBatch
    /\ ShowBatch(streamEntity, currentBatch', batchSize)
    /\ lastOp' = "stream_next"
    /\ UNCHANGED <<streamEntity, isStreaming, batchSize, streamTimers>>

\* The batch sizes the select offers (two of its four options)
BatchSizes == {25, 50}

\* onChange of the batch size select
handleBatchSizeChange(newSize) ==
    /\ StreamFrame
    /\ batchSize' = newSize
    /\ currentBatch' = 1
    /\ ShowBatch(streamEntity, 1, newSize)
    /\ lastOp' = "stream_size"
    /\ UNCHANGED <<streamEntity, isStreaming, streamTimers>>

\* A request for the key on screen is answered.  The answer to the running
\* fetch settles the Query; the answer to a cancelled fetch is dropped.
StreamResponse(hasMore, ofRunningFetch) ==
    /\ StreamFrame
    /\ batchHttp > 0
    /\ ofRunningFetch => batchQuery.fetchStatus = "fetching"
    /\ ~ofRunningFetch => (batchQuery.fetchStatus = "idle" \/ batchHttp > 1)
    /\ batchHttp' = batchHttp - 1
    /\ batchQuery' = IF ofRunningFetch
                     THEN [fetchStatus |-> "idle",
                           data |-> IF hasMore THEN "more" ELSE "last"]
                     ELSE batchQuery
    /\ lastOp' = "stream_response"
    /\ UNCHANGED <<streamEntity, isStreaming, currentBatch, batchSize, streamTimers>>

\* The router replaces the page: the page that leaves runs the cleanup of its
\* effects and loses its state, the page that comes starts from its initial
\* state.  The query cache stays.
Navigate(to) ==
    /\ to # route
    /\ route' = to
    /\ selectedEntityId' = ""
    /\ selectedTimestamp' = 0
    /\ eventCount' = 1
    /\ viewMode' = "timestamp"
    /\ isPlaying' = FALSE
    /\ playbackSpeed' = 1000
    /\ interval' = NoInterval
    /\ prevJump' = "none"
    /\ streamEntity' = ""
    /\ isStreaming' = FALSE
    /\ currentBatch' = 1
    /\ batchSize' = 25
    /\ streamTimers' = streamTimers - TimersCleared(streamTimers)
    /\ batchQuery' = DisabledBatchQuery
    /\ batchHttp' = 0
    /\ lastOp' = "navigate"
    /\ UNCHANGED <<timelineCache, stateQueries>>
    /\ UNCHANGED <<cacheVars, notifVars, analyticsVars, searchVars, restVars>>
    /\ UNCHANGED authVars

\* ---------------------------------------------------------------------------
\* pages/Analytics: the date-range filter of the analytics-data query and the
\* processedData memo.  Time is counted in half days: day d starts at the
\* instant 2 * d, its noon is 2 * d + 1.
\* ---------------------------------------------------------------------------
\* new Date(x): a time value, or an Invalid Date
Date(t) == [valid |-> TRUE, time |-> t]

InvalidDate == [valid |-> FALSE, time |-> 0]

\* The value of an <input type="date">: 'yyyy-MM-dd', or '' when cleared
DateInput(d) == [set |-> TRUE, day |-> d]

EmptyDateInput == [set |-> FALSE, day |-> 0]

DateInputs == {EmptyDateInput} \cup {DateInput(d) : d \in 0..MaxDay}

\* new Date(dateRange.start): a date-only string is 00:00 UTC of that day
ParseDateInput(input) == IF input.set THEN Date(2 * input.day) ELSE InvalidDate

\* The timestamps an event can carry, parsed: every half day of the days the
\* inputs can take, or a string that is no date.
Timestamps == {Date(t) : t \in 0..(2 * MaxDay + 1)} \cup {InvalidDate}

EventNames == {"UserCreated", "UserUpdated"}

EventData == [timestamp : Timestamps, eventName : EventNames]

EventLists == SeqsUpTo(EventData, MaxEventList)

TzOffsets == {-1, 0, 1}

\* eventDate >= startDate && eventDate <= endDate: a comparison with an
\* Invalid Date is false
InRange(eventDate, startDate, endDate) ==
    /\ eventDate.valid /\ startDate.valid /\ endDate.valid
    /\ eventDate.time >= startDate.time
    /\ eventDate.time <= endDate.time

DateRangeFilterOpenEnd(events, startDate, endDate) ==
    SelectSeq(events, LAMBDA e :
        InRange(e.timestamp, startDate, endDate) /\ e.timestamp.time < endDate.time)

\* timeline.events.filter(event => eventDate >= startDate && eventDate <= endDate)
DateRangeFilter(events, startDate, endDate) ==
    SelectSeq(events, LAMBDA e : InRange(e.timestamp, startDate, endDate))

\* format(date, 'yyyy-MM-dd'), startOfDay(date): the calendar day of a date in
\* the browser's time zone
LocalDay(date, offset) == (date.time + offset) \div 2

DaysTo(first, n) == [i \in 1..n |-> first + i - 1]

\* eachDayOfInterval({ start, end }): the days from start's to end's, both
\* included.  For an Invalid Date or a start after the end, date-fns 2 throws
\* RangeError; date-fns 3 returns [] for an Invalid Date and the days in
\* descending order for a start after the end.
EachDayOfInterval(startDate, endDate, offset, legacy) ==
    IF ~startDate.valid \/ ~endDate.valid
    THEN [threw |-> legacy, days |-> << >>]
    ELSE IF startDate.time > endDate.time
    THEN [threw |-> legacy,
          days |-> IF legacy THEN << >>
                   ELSE LET n == LocalDay(startDate, offset) - LocalDay(endDate, offset) + 1
                        IN  [i \in 1..n |-> LocalDay(startDate, offset) - i + 1]]
    ELSE [threw |-> FALSE,
          days |-> DaysTo(LocalDay(startDate, offset),
                          LocalDay(endDate, offset) - LocalDay(startDate, offset) + 1)]

EventDayInUtc(eventDate, offset) == eventDate.time \div 2

\* format(eventDate, 'yyyy-MM-dd'): the day an event is counted under
EventDay(eventDate, offset) == LocalDay(eventDate, offset)

\* eventsInRange.filter(event => format(eventDate, 'yyyy-MM-dd') ===
\* format(date, 'yyyy-MM-dd')).length, for every day of the interval
EventsOverTime(events, days, offset) ==
    [i \in 1..Len(days) |->
        Cardinality({j \in 1..Len(events) :
                        EventDay(events[j].timestamp, offset) = days[i]})]

\* eventsByType[event.eventName] = (eventsByType[event.eventName] || 0) + 1
EventsByType(events) ==
    [name \in {events[j].eventName : j \in 1..Len(events)} |->
        Cardinality({j \in 1..Len(events) : events[j].eventName = name})]

NotLoaded == [loaded |-> FALSE, eventsInRange |-> << >>]

NullProcessed == [kind |-> "null", eventsOverTime |-> << >>, eventTypeData |-> << >>]

\* The processedData memo.
ProcessData(data, range, offset, legacy) ==
    IF ~data.loaded THEN NullProcessed
    ELSE LET dateInterval == EachDayOfInterval(ParseDateInput(range.start),
                                           ParseDateInput(range.end), offset, legacy)
         IN  IF dateInterval.threw
             THEN [kind |-> "threw", eventsOverTime |-> << >>, eventTypeData |-> << >>]
             ELSE [kind |-> "value",
                   eventsOverTime |-> EventsOverTime(data.eventsInRange, dateInterval.days, offset),
                   eventTypeData |-> EventsByType(data.eventsInRange)]

AnalyticsFrame ==
    /\ processedData.kind # "threw"      \* the ErrorBoundary has replaced the page
    /\ UNCHANGED <<tz, serverEvents>>
    /\ UNCHANGED <<cacheVars, notifVars, route, streamVars, searchVars, restVars>>
    /\ UNCHANGED authVars
    /\ UNCHANGED playbackVars

\* onChange of a date input: the query key changes, and the query of the new
\* key has no data until it is fetched.
SetDateRange(start, end) ==
    /\ AnalyticsFrame
    /\ <<start, end>> # <<dateRange.start, dateRange.end>>
    /\ start = dateRange.start \/ end = dateRange.end
    /\ dateRange' = [start |-> start, end |-> end]
    /\ analyticsData' = NotLoaded
    /\ processedData' = ProcessData(NotLoaded, dateRange', tz, FALSE)
    /\ lastOp' = "set_date_range"

\* The analytics-data query resolves: its queryFn has filtered the timelines
\* with the dateRange of its key, and the page renders the memo.  legacy
\* tells which date-fns is installed.
AnalyticsFetched(legacy) ==
    /\ AnalyticsFrame
    /\ ~analyticsData.loaded
    /\ analyticsData' =
          [loaded |-> TRUE,
           eventsInRange |-> DateRangeFilter(serverEvents,
                                             ParseDateInput(dateRange.start),
                                             ParseDateInput(dateRange.end))]
    /\ processedData' = ProcessData(analyticsData', dateRange, tz, legacy)
    /\ lastOp' = "analytics_fetched"
    /\ UNCHANGED dateRange

\* ---------------------------------------------------------------------------
\* The state of everything outside the Time Travel page, the route guard and
\* the API client when the application starts
\* ---------------------------------------------------------------------------
\* ---------------------------------------------------------------------------
\* pages/EventStreams: filteredUsers.  Strings are sequences of characters.
\* ---------------------------------------------------------------------------
Words == {<< >>, <<"a">>, <<"A">>, <<"a", "b">>}

\* a property the record does not have: undefined
MissingField == <<"undefined">>

Users == [name : Words \cup {MissingField}, email : Words \cup {MissingField}]

UserLists == SeqsUpTo(Users, MaxUsers)

\* String.prototype.toLowerCase
ToLowerCase(w) ==
    [i \in 1..Len(w) |-> IF w[i] = "A" THEN "a" ELSE IF w[i] = "B" THEN "b" ELSE w[i]]

\* String.prototype.includes
Includes(w, q) ==
    \E i \in 0..(Len(w) - Len(q)) : SubSeq(w, i + 1, i + Len(q)) = q

\* user.name.toLowerCase().includes(term) || user.email.toLowerCase().includes(term):
\* toLowerCase of undefined is a TypeError; the email is looked at only when
\* the name does not match.
UserMatch(usr, term) ==
    IF usr.name = MissingField THEN "threw"
    ELSE IF Includes(ToLowerCase(usr.name), ToLowerCase(term)) THEN "keep"
    ELSE IF usr.email = MissingField THEN "threw"
    ELSE IF Includes(ToLowerCase(usr.email), ToLowerCase(term)) THEN "keep"
    ELSE "drop"

\* users?.filter(...) || []
FilteredUsers(list, term) ==
    IF \E j \in 1..Len(list) : UserMatch(list[j], term) = "threw"
    THEN [threw |-> TRUE, value |-> << >>]
    ELSE [threw |-> FALSE,
          value |-> SelectSeq(list, LAMBDA u : UserMatch(u, term) = "keep")]

\* EventTimeline: eventTypeFilter === 'all' || event.eventName === eventTypeFilter
EventTypeFilter(events, eventTypeFilter) ==
    SelectSeq(events, LAMBDA e : eventTypeFilter = "all" \/ e.eventName = eventTypeFilter)

\* onChange of the search input, and the render that follows
SetSearchTerm(term) ==
    /\ route = "/streams"
    /\ ~filteredUsers.threw              \* the ErrorBoundary has replaced the page
    /\ term # searchTerm
    /\ searchTerm' = term
    /\ filteredUsers' = FilteredUsers(users, term)
    /\ lastOp' = "set_search_term"
    /\ UNCHANGED users
    /\ UNCHANGED <<cacheVars, notifVars, route, streamVars, analyticsVars, restVars>>
    /\ UNCHANGED authVars
    /\ UNCHANGED playbackVars

\* The first render with the users loaded: the search box is empty.
SearchInit ==
    /\ searchTerm = << >>
    /\ filteredUsers = FilteredUsers(users, << >>)

\* ---------------------------------------------------------------------------
\* pages/Settings.  The settings object is modelled by one field of each
\* type: apiUrl (text input), refreshInterval (number input, like
\* maxEventsPerPage and retentionDays) and debugMode (toggle, like the other
\* three switches).
\* ---------------------------------------------------------------------------
\* JavaScript values of the settings fields and the JSON tokens of the file
Num(n) == [type |-> "number", n |-> n]

NaN == [type |-> "NaN", n |-> 0]

JsNull == [type |-> "null", n |-> 0]

\* parseInt(e.target.value) of a number input: NaN when the field is emptied
ParsedInts == {Num(5), Num(30), NaN}

ApiUrls == {"http://localhost:3000", "http://api"}

DefaultSettings ==
    [apiUrl |-> "http://localhost:3000", refreshInterval |-> Num(30), debugMode |-> FALSE]

SettingsValues == [apiUrl : ApiUrls, refreshInterval : ParsedInts, debugMode : BOOLEAN]

\* A token of the JSON text
Token(tok, n, s) == [tok |-> tok, n |-> n, s |-> s]

\* JSON.stringify of a number: NaN (and Infinity) are written as null
StringifyNumber(v) ==
    IF v.type = "number" THEN Token("number", v.n, "") ELSE Token("null", 0, "")

\* JSON.stringify(settings, null, 2): the text, as its key/token pairs
JsonStringify(s) ==
    [apiUrl |-> Token("string", 0, s.apiUrl),
     refreshInterval |-> StringifyNumber(s.refreshInterval),
     debugMode |-> Token(IF s.debugMode THEN "true" ELSE "false", 0, "")]

ParseToken(t) ==
    CASE t.tok = "number" -> Num(t.n)
      [] t.tok = "null" -> JsNull
      [] t.tok = "string" -> t.s
      [] t.tok = "true" -> TRUE
      [] t.tok = "false" -> FALSE

\* JSON.parse of such a text: an object with the keys of the text
JsonParse(text) == [k \in DOMAIN text |-> ParseToken(text[k])]

NoFile == [written |-> FALSE, text |-> JsonStringify(DefaultSettings),
           exported |-> DefaultSettings]

\* { ...settings, ...importedSettings }: the keys of the file win
Spread(base, over) == [k \in DOMAIN base \cup DOMAIN over |->
                          IF k \in DOMAIN over THEN over[k] ELSE base[k]]

SettingsFrame ==
    /\ route = "/settings"
    /\ UNCHANGED route
    /\ UNCHANGED <<viewerVars, apiCall, timelinePage, totalCount, notifPaging>>
    /\ UNCHANGED dataVars
    /\ UNCHANGED authVars
    /\ UNCHANGED playbackVars

\* onChange / onClick of a field
SetSettings(next) ==
    /\ SettingsFrame
    /\ next # settings
    /\ \/ next = [settings EXCEPT !.apiUrl = next.apiUrl]
       \/ next = [settings EXCEPT !.refreshInterval = next.refreshInterval]
       \/ next = [settings EXCEPT !.debugMode = ~settings.debugMode]
    /\ settings' = next
    /\ lastOp' = "set_settings"
    /\ UNCHANGED exportFile

handleReset ==
    /\ SettingsFrame
    /\ settings' = DefaultSettings
    /\ lastOp' = "reset_settings"
    /\ UNCHANGED exportFile

\* The download link is clicked: the browser saves the text.  exported
\* remembers the settings object the text was made from.
handleExportSettings ==
    /\ SettingsFrame
    /\ exportFile' = [written |-> TRUE, text |-> JsonStringify(settings),
                      exported |-> settings]
    /\ lastOp' = "export_settings"
    /\ UNCHANGED settings

\* The user picks the exported file, or a file that is not JSON; reader.onload
\* parses it and merges it over the settings.
handleImportSettings(valid) ==
    /\ SettingsFrame
    /\ valid => exportFile.written
    /\ settings' = IF valid THEN Spread(settings, JsonParse(exportFile.text))
                   ELSE settings                  \* alert('Invalid settings file')
    /\ lastOp' = IF valid THEN "import_settings" ELSE "import_rejected"
    /\ UNCHANGED exportFile

\* ---------------------------------------------------------------------------
\* components/EditableJsonViewer.  A text is a sequence of characters; the
\* JSON values are 1 and the arrays of at most one value.
\* ---------------------------------------------------------------------------
\* the characters typed; white space enters the text through JSON.stringify(v, null, 2)
JsonChars == {"[", "1", "]"}

JsonTexts == SeqsUpTo(JsonChars, MaxText)

JsonOne == [depth |-> 0, leaf |-> TRUE]

JsonValues == {JsonOne, [depth |-> 1, leaf |-> FALSE], [depth |-> 1, leaf |-> TRUE]}

\* JSON.parse skips the white space between tokens
StripSpace(text) == SelectSeq(text, LAMBDA c : c # " ")

RECURSIVE IsJson(_)
IsJson(s) ==
    \/ s = <<"1">>
    \/ /\ Len(s) >= 2
       /\ s[1] = "[" /\ s[Len(s)] = "]"
       /\ Len(s) = 2 \/ IsJson(SubSeq(s, 2, Len(s) - 1))

\* JSON.parse(text): the value, or that it threw SyntaxError
JsonParseText(text) ==
    LET s == StripSpace(text)
    IN  IF IsJson(s)
        THEN [threw |-> FALSE,
              value |-> [depth |-> Cardinality({i \in 1..Len(s) : s[i] = "["}),
                         leaf |-> \E i \in 1..Len(s) : s[i] = "1"]]
        ELSE [threw |-> TRUE, value |-> JsonOne]

\* JSON.stringify(value) and JSON.stringify(value, null, 2)
RECURSIVE JsonStringifyValue(_, _)
JsonStringifyValue(v, pretty) ==
    IF v.depth = 0 THEN <<"1">>
    ELSE IF v.depth = 1 /\ ~v.leaf THEN <<"[", "]">>
    ELSE LET inner == JsonStringifyValue([v EXCEPT !.depth = @ - 1], pretty)
         IN  IF pretty THEN <<"[", " ">> \o inner \o <<" ", "]">>
             ELSE <<"[">> \o inner \o <<"]">>

ViewerFrame ==
    /\ UNCHANGED route
    /\ UNCHANGED <<settingsVars, apiCall, timelinePage, totalCount, notifPaging>>
    /\ UNCHANGED dataVars
    /\ UNCHANGED authVars
    /\ UNCHANGED playbackVars

handleEdit ==
    /\ ViewerFrame
    /\ ~viewer.isEditing                  \* the Edit button is shown
    /\ viewer' = [viewer EXCEPT !.isEditing = TRUE, !.error = FALSE]
    /\ lastOp' = "viewer_edit"
    /\ UNCHANGED onSaveCalls

\* onChange of the textarea
SetEditedData(text) ==
    /\ ViewerFrame
    /\ viewer.isEditing
    /\ text # viewer.editedData
    /\ viewer' = [viewer EXCEPT !.editedData = text]
    /\ lastOp' = "viewer_type"
    /\ UNCHANGED onSaveCalls

SaveKeepsEditingOff(v, parsed) ==
    IF parsed.threw THEN [v EXCEPT !.error = TRUE, !.isEditing = FALSE]
    ELSE [v EXCEPT !.error = FALSE, !.isEditing = FALSE]

\* The viewer state after handleSave
ViewerAfterSave(v, parsed) ==
    IF parsed.threw THEN [v EXCEPT !.error = TRUE]
    ELSE [v EXCEPT !.error = FALSE, !.isEditing = FALSE]

handleSave ==
    LET parsed == JsonParseText(viewer.editedData)
    IN  /\ ViewerFrame
        /\ viewer.isEditing               \* the Save button is shown
        /\ (~parsed.threw /\ viewer.hasOnSave) => Len(onSaveCalls) < MaxSaves
        /\ viewer' = ViewerAfterSave(viewer, parsed)
        /\ onSaveCalls' = IF ~parsed.threw /\ viewer.hasOnSave
                          THEN Append(onSaveCalls, parsed.value)
                          ELSE onSaveCalls
        /\ lastOp' = "viewer_save"

handleCancel ==
    /\ ViewerFrame
    /\ viewer.isEditing
    /\ viewer' = [viewer EXCEPT !.editedData = JsonStringifyValue(viewer.data, TRUE),
                                !.error = FALSE, !.isEditing = FALSE]
    /\ lastOp' = "viewer_cancel"
    /\ UNCHANGED onSaveCalls

\* formatJson (pretty) and minifyJson
ReformatJson(pretty) ==
    LET parsed == JsonParseText(viewer.editedData)
    IN  /\ ViewerFrame
        /\ viewer.isEditing
        /\ viewer' = IF parsed.threw THEN [viewer EXCEPT !.error = TRUE]
                     ELSE [viewer EXCEPT !.editedData = JsonStringifyValue(parsed.value, pretty),
                                         !.error = FALSE]
        /\ lastOp' = IF pretty THEN "viewer_format" ELSE "viewer_minify"
        /\ UNCHANGED onSaveCalls

\* After the mount and its effect: the text is the pretty-printed data.
ViewerMounted(data, hasOnSave) ==
    [data |-> data, hasOnSave |-> hasOnSave, isEditing |-> FALSE,
     editedData |-> JsonStringifyValue(data, TRUE), error |-> FALSE]

ViewerInit ==
    /\ viewer = ViewerMounted(JsonOne, FALSE)
    /\ onSaveCalls = << >>

\* ---------------------------------------------------------------------------
\* services/api: what an API function returns for the body of a 2xx response
\* ---------------------------------------------------------------------------
\* A JavaScript value: its type and, for a number its value, for a boolean 0
\* or 1, for a string or an array its length
Js(kind, n) == [kind |-> kind, n |-> n]

JsValues ==
    {Js("null", 0), Js("object", 1)} \cup
    {Js(kind, n) : kind \in {"number", "boolean", "string", "array"}, n \in 0..1}

\* ToBoolean: null, 0, false and '' are falsy; every object and array is truthy
Truthy(v) == ~(v.kind = "null" \/ (v.kind \in {"number", "boolean", "string"} /\ v.n = 0))

\* The body of the response: the envelope { success, data, timestamp }, or a
\* bare payload (shape "bare": data is the payload itself, which has no
\* property 'data')
Bodies == [shape : {"envelope", "bare"}, data : JsValues]

\* body.data, or undefined
DataProperty(body) == IF body.shape = "envelope" THEN body.data ELSE Js("null", 0)

\* The functions that end with || []
OrEmptyFunctions == {"usersApi.getAllUsers", "usersApi.getUsersByRole"}

\* What the function returns: the body, the body's data, or a new []
\*   authApi.*:   response.data
\*   others:      response.data?.data || response.data   (and || [] for two)
Returns(fn, body) ==
    IF fn \in AuthApiFunctions THEN "body"
    ELSE IF Truthy(DataProperty(body)) THEN "data"
    ELSE IF fn \in OrEmptyFunctions /\ body.shape = "bare" /\ ~Truthy(body.data)
         THEN "empty-array"
    ELSE "body"

NoApiCall == [fn |-> "healthApi.getHealth", body |-> [shape |-> "bare", data |-> Js("null", 0)],
              returned |-> "pending"]

\* The awaited api.get/post/put/delete resolved with a 2xx response and the
\* function returns.
ApiReturns ==
    /\ apiCall.returned = "pending"
    /\ apiCall' = [apiCall EXCEPT !.returned = Returns(apiCall.fn, apiCall.body)]
    /\ lastOp' = "api_returns"
    /\ UNCHANGED route
    /\ UNCHANGED <<settingsVars, viewerVars, timelinePage, totalCount, notifPaging>>
    /\ UNCHANGED dataVars
    /\ UNCHANGED authVars
    /\ UNCHANGED playbackVars

\* ---------------------------------------------------------------------------
\* pages/EventTimeline: allEvents and filteredEvents
\* ---------------------------------------------------------------------------
\* The events of a timelinePage that passed the date-range filter of the queryFn:
\* their timestamps parse.  changes lists the fields an event changed.
TimelineEvents ==
    {[timestamp |-> t, eventName |-> n,
      changes |-> IF n = "UserCreated" THEN <<<<"a">>, <<"a", "b">>>> ELSE <<<<"A">>>>] :
        t \in 0..1, n \in EventNames}

\* userInfo of the selected users, in the order they were selected
SelectedUserInfo == <<[name |-> <<"a">>, email |-> <<"a", "b">>],
                      [name |-> <<"A">>, email |-> << >>]>>

TimelineDatas == [1..Len(SelectedUserInfo) -> SeqsUpTo(TimelineEvents, MaxEventList)]

\* timelineData.flatMap(userData => userData.events.map(event => ({ ...event,
\* userId, userInfo }))): pos is the place of the event in its server list
RECURSIVE FlatMap(_, _)
FlatMap(data, u) ==
    IF u > Len(data) THEN << >>
    ELSE [i \in 1..Len(data[u]) |->
             [timestamp |-> data[u][i].timestamp, eventName |-> data[u][i].eventName,
              changes |-> data[u][i].changes, userId |-> u, pos |-> i]]
         \o FlatMap(data, u + 1)

CompareOldestFirst(a, b) == a.timestamp - b.timestamp

\* (a, b) => new Date(b.timestamp).getTime() - new Date(a.timestamp).getTime()
CompareNewestFirst(a, b) == b.timestamp - a.timestamp

\* Array.prototype.sort is stable: an element is put after the elements that
\* compare equal to it and came before it.
RECURSIVE Insert(_, _)
Insert(sorted, x) ==
    IF sorted = << >> THEN <<x>>
    ELSE IF CompareNewestFirst(Head(sorted), x) <= 0
         THEN <<Head(sorted)>> \o Insert(Tail(sorted), x)
         ELSE <<x>> \o sorted

RECURSIVE Sort(_)
Sort(list) ==
    IF list = << >> THEN << >>
    ELSE Insert(Sort(SubSeq(list, 1, Len(list) - 1)), list[Len(list)])

AllEvents(data) == Sort(FlatMap(data, 1))

\* matchesEventType && matchesSearch
MatchesFilters(event, eventTypeFilter, term) ==
    /\ eventTypeFilter = "all" \/ event.eventName = eventTypeFilter
    /\ \/ term = << >>
       \/ \E c \in 1..Len(event.changes) :
             Includes(ToLowerCase(event.changes[c]), ToLowerCase(term))
       \/ Includes(ToLowerCase(SelectedUserInfo[event.userId].name), ToLowerCase(term))
       \/ Includes(ToLowerCase(SelectedUserInfo[event.userId].email), ToLowerCase(term))

FilteredEvents(t) ==
    SelectSeq(AllEvents(t.data),
              LAMBDA ev : MatchesFilters(ev, t.eventTypeFilter, t.searchTerm))

TimelineFrame ==
    /\ route = "/timelinePage"
    /\ UNCHANGED route
    /\ UNCHANGED <<settingsVars, viewerVars, apiCall, totalCount, notifPaging>>
    /\ UNCHANGED dataVars
    /\ UNCHANGED authVars
    /\ UNCHANGED playbackVars

\* onChange of the event-type select
SetEventTypeFilter(f) ==
    /\ TimelineFrame
    /\ f # timelinePage.eventTypeFilter
    /\ timelinePage' = [timelinePage EXCEPT !.eventTypeFilter = f]
    /\ lastOp' = "set_event_type_filter"

\* onChange of the search input
SetTimelineSearch(term) ==
    /\ TimelineFrame
    /\ term # timelinePage.searchTerm
    /\ timelinePage' = [timelinePage EXCEPT !.searchTerm = term]
    /\ lastOp' = "set_timeline_search"

\* The page as mounted, with the data of the selected users
TimelineMounted(data) == [data |-> data, eventTypeFilter |-> "all", searchTerm |-> << >>]

TimelineInit == timelinePage = TimelineMounted([u \in 1..Len(SelectedUserInfo) |-> << >>])

\* ---------------------------------------------------------------------------
\* services/api: eventSourcingApi.getTotalEventsCount, a loop of awaited
\* requests.  The user list holds user objects.
\* ---------------------------------------------------------------------------
\* No call is running.  fetches lists how the event fetches made so far
\* ended, listingFailed tells whether GET /users/all failed.
NoTotalCall ==
    [phase |-> "idle", users |-> 0, next |-> 1, totalEvents |-> 0,
     settled |-> "none", result |-> 0, fetches |-> << >>, listingFailed |-> FALSE]

\* The bodies of GET /events/:id/events: an event list of some length, or a
\* value that is not an array
EventsBodies == [isArray : BOOLEAN, length : 0..MaxEventList]

TotalFrame(outcome) ==
    /\ authToken' = TokenAfterResponse(outcome, authToken)
    /\ page' = PageAfterResponse(outcome, nodeEnv, page)
    /\ since401' = (since401 \/ outcome = "unauthorized")
    /\ UNCHANGED <<user, nowMs, nodeEnv, inflight, apiEvent>>
    /\ UNCHANGED route
    /\ UNCHANGED <<settingsVars, viewerVars, apiCall, timelinePage, notifPaging>>
    /\ UNCHANGED dataVars
    /\ UNCHANGED playbackVars

\* The Dashboard's query calls the function: GET /users/all is sent.
GetTotalEventsCount ==
    /\ page = "protected"
    /\ totalCount.phase \in {"idle", "returned"}
    /\ totalCount' = [NoTotalCall EXCEPT !.phase = "users"]
    /\ lastOp' = "total_call"
    /\ TotalFrame("ok")

TotalRethrown(t) == [t EXCEPT !.phase = "returned", !.settled = "rejected"]

\* The outer catch: return { totalEvents: 0 }
TotalCaught(t) == [t EXCEPT !.phase = "returned", !.settled = "resolved", !.result = 0]

\* return { totalEvents }
TotalReturned(t) ==
    [t EXCEPT !.phase = "returned", !.settled = "resolved", !.result = t.totalEvents]

\* GET /users/all ends: with a list of n users, or with an error.
TotalUsersResponse(outcome, n) ==
    /\ totalCount.phase = "users"
    /\ totalCount' =
          IF outcome # "ok"
          THEN TotalCaught([totalCount EXCEPT !.listingFailed = TRUE])
          ELSE IF n = 0 THEN TotalReturned(totalCount)
          ELSE [totalCount EXCEPT !.phase = "events", !.users = n]
    /\ lastOp' = "total_users"
    /\ TotalFrame(outcome)

\* GET /events/:id/events of the next user ends; the loop goes on to the user
\* after, or the function returns.
TotalEventsResponse(outcome, body) ==
    LET add == IF outcome = "ok" /\ body.isArray THEN body.length ELSE 0
        t == [totalCount EXCEPT !.totalEvents = @ + add,
                                !.fetches = Append(@, [outcome |-> outcome, body |-> body]),
                                !.next = @ + 1]
    IN  /\ totalCount.phase = "events"
        /\ totalCount' = IF t.next > t.users THEN TotalReturned(t) ELSE t
        /\ lastOp' = "total_events"
        /\ TotalFrame(outcome)

TotalInit == totalCount = NoTotalCall

SettingsInit ==
    /\ settings = DefaultSettings
    /\ exportFile = NoFile

\* No call has been made: the call of the record has returned.
ApiCallInit == apiCall = [NoApiCall EXCEPT !.returned = "body"]

\* ---------------------------------------------------------------------------
\* pages/Notifications: the page number.  The list query is keyed by
\* (filter, page); its data carry the total the server counted for the filter.
\* ---------------------------------------------------------------------------
\* notificationsApi.getNotifications(page, 20, ...)
PageSize == 20

NoListData == [loaded |-> FALSE, total |-> 0]

ListData(total) == [loaded |-> TRUE, total |-> total]

\* total of the response: the notifications the filter selects
ServerTotal(p, filter) == IF filter = "unread" THEN p.unread ELSE p.all

\* The data useQuery returns after the key went from (filter, page) to (f, n)
DataOfKey(p, f, n) ==
    IF <<f, n>> # <<notifFilter, p.page>> THEN NoListData ELSE p.data

\* An item of the current page is on screen
ItemShown(p) == p.data.loaded /\ (p.page - 1) * PageSize < p.data.total

NotifPagingFrame ==
    /\ UNCHANGED <<notifMounted, serverVersion, pendingMutations>>
    /\ UNCHANGED <<cacheVars, route, streamVars, analyticsVars, searchVars>>
    /\ UNCHANGED <<settingsVars, viewerVars, apiCall, timelinePage, totalCount>>
    /\ UNCHANGED authVars
    /\ UNCHANGED playbackVars

\* The list query of the key on screen is answered.
ListFetched ==
    /\ ~notifPaging.data.loaded
    /\ notifPaging' = [notifPaging EXCEPT
                          !.data = ListData(ServerTotal(notifPaging, notifFilter))]
    /\ lastOp' = "list_fetched"
    /\ UNCHANGED notifFilter
    /\ NotifPagingFrame

NextPage(n, data) ==
    IF data.loaded /\ n * PageSize < data.total THEN n + 1 ELSE n

handleNextPage ==
    /\ LET n == NextPage(notifPaging.page, notifPaging.data) IN
       notifPaging' = [notifPaging EXCEPT
                          !.page = n, !.data = DataOfKey(notifPaging, notifFilter, n)]
    /\ lastOp' = "next_page"
    /\ UNCHANGED notifFilter
    /\ NotifPagingFrame

PrevPage(n) == IF n > 1 THEN n - 1 ELSE n

handlePrevPage ==
    /\ LET n == PrevPage(notifPaging.page) IN
       notifPaging' = [notifPaging EXCEPT
                          !.page = n, !.data = DataOfKey(notifPaging, notifFilter, n)]
    /\ lastOp' = "prev_page"
    /\ UNCHANGED notifFilter
    /\ NotifPagingFrame

\* onClick of a filter tab: setFilter(f); setPage(1)
handleFilterTab(f) ==
    /\ notifFilter' = f
    /\ notifPaging' = [notifPaging EXCEPT !.page = 1, !.data = DataOfKey(notifPaging, f, 1)]
    /\ lastOp' = "filter_tab"
    /\ NotifPagingFrame

\* handleDelete of an item on screen: the server deletes it, onSuccess
\* invalidates ['notifications'] and the list on screen is fetched again.
handleDelete(wasUnread) ==
    /\ ItemShown(notifPaging)
    /\ notifFilter = "unread" => wasUnread
    /\ IF wasUnread THEN notifPaging.unread > 0 ELSE notifPaging.all > notifPaging.unread
    /\ LET after == [notifPaging EXCEPT
                        !.all = @ - 1,
                        !.unread = IF wasUnread THEN @ - 1 ELSE @] IN
       notifPaging' = [after EXCEPT !.data = ListData(ServerTotal(after, notifFilter))]
    /\ lastOp' = "delete"
    /\ UNCHANGED notifFilter
    /\ NotifPagingFrame

\* handleMarkAsRead of an unread item on screen, then the same invalidation
handleMarkAsRead ==
    /\ ItemShown(notifPaging)
    /\ notifPaging.unread > 0
    /\ LET after == [notifPaging EXCEPT !.unread = @ - 1] IN
       notifPaging' = [after EXCEPT !.data = ListData(ServerTotal(after, notifFilter))]
    /\ lastOp' = "mark_read"
    /\ UNCHANGED notifFilter
    /\ NotifPagingFrame

\* useState(1), nothing fetched, no notification on the server
NotifPagingInit ==
    notifPaging = [page |-> 1, all |-> 0, unread |-> 0, data |-> NoListData]

RestInit ==
    /\ NotifPagingInit
    /\ SettingsInit
    /\ ViewerInit
    /\ ApiCallInit
    /\ TimelineInit
    /\ TotalInit

CacheInit ==
    /\ queries = [k \in AllKeys |-> InitialQuery]
    /\ requests = [k \in AllKeys |-> 0]
    /\ qEvent = NoQueryEvent
    /\ dataVersion = [k \in AllKeys |-> 0]

NotificationsInit ==
    /\ notifMounted = FALSE
    /\ notifFilter = "all"
    /\ serverVersion = 0
    /\ pendingMutations = {}

EventStreamsInit ==
    /\ streamEntity = ""
    /\ isStreaming = FALSE
    /\ currentBatch = 1
    /\ batchSize = 25
    /\ streamTimers = 0
    /\ batchQuery = DisabledBatchQuery
    /\ batchHttp = 0

\* dateRange starts as the last 30 days; no analytics data are loaded yet.
AnalyticsInit ==
    /\ dateRange = [start |-> DateInput(0), end |-> DateInput(MaxDay)]
    /\ analyticsData = NotLoaded
    /\ processedData = NullProcessed

\* The query cache and the pages that read it, as they are at the start
DataPagesInit ==
    /\ CacheInit
    /\ NotificationsInit
    /\ route = "/time-travel"
    /\ EventStreamsInit
    /\ tz = 0
    /\ serverEvents = << >>
    /\ AnalyticsInit
    /\ users = << >>
    /\ SearchInit

ExtInit ==
    /\ CacheInit
    /\ NotificationsInit
    /\ route = "/time-travel"
    /\ EventStreamsInit
    /\ tz = 0
    /\ serverEvents = << >>
    /\ AnalyticsInit
    /\ users = << >>
    /\ SearchInit
    /\ RestInit

\* ---------------------------------------------------------------------------
\* Specification of the Time Travel page
\* ---------------------------------------------------------------------------
Init ==
    /\ selectedEntityId = ""
    /\ selectedTimestamp = 0
    /\ eventCount = 1
    /\ viewMode = "timestamp"
    /\ isPlaying = FALSE
    /\ playbackSpeed = 1000
    /\ timelineCache = [e \in Entities |-> Undefined]
    /\ interval = NoInterval
    /\ lastOp = "init"
    /\ prevJump = "none"
    /\ stateQueries = {}
    /\ authToken = Null
    /\ user = Null
    /\ nowMs = 0
    /\ page = "/login"
    /\ nodeEnv = "development"
    /\ inflight = {}
    /\ apiEvent = NoApiEvent
    /\ since401 = FALSE
    /\ ExtInit

\* One step of the page: a handler, the interval timer or the timeline response
PlaybackStep ==
    \/ \E e \in Entities \cup {""} : SelectEntity(e)
    \/ \E n \in 0..MaxEvents : TimelineFetched(n)
    \/ \E m \in {"timestamp", "eventCount"} : SetViewMode(m)
    \/ \E minute \in 0..Slice16(MaxEvents * EventSpacing) : SetSelectedTimestamp(minute)
    \/ \E v \in 1..MaxEvents : SliderChange(v)
    \/ \E s \in PlaybackSpeeds : SetPlaybackSpeed(s)
    \/ handlePlayPause
    \/ handleStepForward
    \/ handleStepBackward
    \/ handleJumpToStart
    \/ handleJumpToEnd
    \/ \E i \in 0..(MaxEvents - 1) : handleTimestampChange(i)
    \/ Tick

\* Spec follows the playback controller and leaves the state-at-time queries
\* where they are; StateSpec follows them.
Next == PlaybackStep /\ UNCHANGED stateQueries

Spec == Init /\ [][Next]_vars

\* The interval timer keeps firing for as long as it is set.
FairSpec == Spec /\ WF_vars(Tick /\ UNCHANGED stateQueries)

\* ---------------------------------------------------------------------------
\* Specification of the route guard and the API client
\* ---------------------------------------------------------------------------
AuthInit ==
    /\ selectedEntityId = ""
    /\ selectedTimestamp = 0
    /\ eventCount = 1
    /\ viewMode = "timestamp"
    /\ isPlaying = FALSE
    /\ playbackSpeed = 1000
    /\ timelineCache = [e \in Entities |-> Undefined]
    /\ interval = NoInterval
    /\ lastOp = "init"
    /\ prevJump = "none"
    /\ stateQueries = {}
    /\ authToken = Null
    /\ user = Null
    /\ nowMs = 0
    /\ page = "/login"
    /\ nodeEnv \in {"development", "production"}
    /\ inflight = {}
    /\ apiEvent = NoApiEvent
    /\ since401 = FALSE
    /\ ExtInit

AuthNext ==
    \/ PrivateRoute
    \/ handleLogout
    \/ ClockAdvance
    \/ \E fn \in ApiFunctions : ApiRequest(fn)
    \/ \E fn \in ApiFunctions, outcome \in Outcomes :
          \E issued \in IssuedTokens(fn, outcome) : ApiResponse(fn, outcome, issued)

AuthSpec == AuthInit /\ [][AuthNext]_vars

\* ---------------------------------------------------------------------------
\* Properties of the playback controller
\* ---------------------------------------------------------------------------
Loaded == HasEvents(CurrentTimeline)

\* N: the length of the currently fetched event list
N == NumEvents(CurrentTimeline)

\* C1: whenever an event list is fetched, the cursor satisfies 1 <= cursor <= N.
CursorWithinEventList == Loaded => (1 <= eventCount /\ eventCount <= N)

RECURSIVE StepForwardTimes(_, _, _)
StepForwardTimes(cursor, timeline, k) ==
    IF k = 0 THEN cursor
    ELSE StepForwardTimes(StepForwardCursor(cursor, timeline), timeline, k - 1)

\* C2: step_forward sets the cursor to min(cursor+1, N), step_backward sets it
\* to max(cursor-1, 1); with N = 5, four step_forward calls from cursor 1 give
\* 5 and every further call leaves it at 5.
StepClamps ==
    /\ [][/\ (lastOp' = "step_forward" /\ Loaded) => eventCount' = Min(eventCount + 1, N)
          /\ lastOp' = "step_backward" => eventCount' = Max(eventCount - 1, 1)]_vars
    /\ [](Loaded /\ N = 5 =>
            /\ StepForwardTimes(1, CurrentTimeline, 4) = 5
            /\ \A k \in 5..(2 * MaxEvents) : StepForwardTimes(1, CurrentTimeline, k) = 5)

StepForwardClampedAtFive ==
    lastOp = "step_forward" /\ Loaded /\ N = 5 /\ eventCount = 5

\* C3: jump_start sets the cursor to 1, jump_end sets it to N; a step_forward
\* right after jump_end and a step_backward right after jump_start leave the
\* cursor where the jump put it.
JumpThenStepIsNoOp ==
    [][/\ lastOp' = "jump_start" => eventCount' = 1
       /\ (lastOp' = "jump_end" /\ Loaded) => eventCount' = N
       /\ (lastOp = "jump_end" /\ lastOp' = "step_forward") => eventCount' = eventCount
       /\ (lastOp = "jump_start" /\ lastOp' = "step_backward") => eventCount' = 1]_vars

StepForwardAfterJumpEnd ==
    /\ prevJump = "jump_end" /\ lastOp = "step_forward"
    /\ Loaded /\ N > 1 /\ eventCount = N

\* C4: while playing, a tick advances the cursor by one, or sets it to 1 when
\* it is at or past N; a tick never stops playback, so when only the timer
\* acts from some point on, the cursor visits every value of 1..N again and
\* again.
PlaybackLoops ==
    /\ [][lastOp' = "tick" =>
            /\ isPlaying /\ viewMode = "eventCount" /\ Loaded
            /\ eventCount' = (IF eventCount >= N THEN 1 ELSE eventCount + 1)
            /\ isPlaying']_vars
    /\ \A v \in 1..MaxEvents :
          <>[](lastOp = "tick" /\ Loaded /\ v <= N) => []<>(eventCount = v)

TickWrappedToStart ==
    lastOp = "tick" /\ isPlaying /\ Loaded /\ N > 1 /\ eventCount = 1

\* C5: pause sets playing to false, leaves the cursor alone and clears the
\* interval; while playing is false no tick is applied.
PauseStopsTimer ==
    [][/\ (lastOp' = "play_pause" /\ isPlaying) =>
            (~isPlaying' /\ eventCount' = eventCount /\ interval' = NoInterval)
       /\ ~isPlaying => lastOp' # "tick"]_vars

PausedMidway ==
    /\ lastOp = "play_pause" /\ ~isPlaying /\ interval = NoInterval
    /\ Loaded /\ viewMode = "eventCount" /\ 1 < eventCount /\ eventCount < N

\* ---------------------------------------------------------------------------
\* Properties of the route guard and the API client
\* ---------------------------------------------------------------------------
\* C6: the guard renders protected content exactly when, at its check, a token
\* is stored and not expired; otherwise it removes 'authToken' and 'user' and
\* redirects to /login; it sends nothing to the server.
GuardChecksStoredToken ==
    [][lastOp' = "navigate" =>
         /\ (page' = "protected") <=>
               (authToken # Null /\ ~isTokenExpired(authToken, nowMs))
         /\ page' # "protected" =>
               (authToken' = Null /\ user' = Null /\ page' = "/login")
         /\ inflight' = inflight /\ apiEvent' = apiEvent]_vars

GuardLetThrough ==
    /\ lastOp = "navigate" /\ page = "protected"
    /\ authToken # Null /\ user # Null /\ nowMs > 0

\* C7: a 401 response removes the stored token, and from then on every
\* protected-route access redirects to /login until a login stores a token.
UnauthorizedForcesSignIn ==
    /\ [][(lastOp' = "api_response" /\ apiEvent'.outcome = "unauthorized")
             => (authToken' = Null /\ since401')]_vars
    /\ [](since401 => authToken = Null)
    /\ [][(since401 /\ lastOp' = "navigate") => page' = "/login"]_vars

RedirectedAfter401 ==
    /\ since401 /\ lastOp = "navigate" /\ page = "/login"
    /\ nodeEnv = "development" /\ authToken = Null

\* C8: a token with exp = e is classified expired exactly when e < now (in
\* seconds): expired one second after e, valid one second before e; the guard
\* acts on that classification.
ExpiredExactlyWhenExpBeforeNow ==
    /\ [](\A e \in 1..MaxExp :
            /\ isTokenExpired(Jwt(e), nowMs) <=> (e * 1000 < nowMs)
            /\ nowMs = (e + 1) * 1000 => isTokenExpired(Jwt(e), nowMs)
            /\ nowMs = (e - 1) * 1000 => ~isTokenExpired(Jwt(e), nowMs))
    /\ [][\A e \in 1..MaxExp :
            (lastOp' = "navigate" /\ authToken = Jwt(e))
               => ((page' = "/login") <=> (e * 1000 < nowMs))]_vars

ValidOneSecondBeforeExp ==
    /\ lastOp = "navigate" /\ page = "protected"
    /\ \E e \in 1..MaxExp : authToken = Jwt(e) /\ nowMs = (e - 1) * 1000

\* C9 as claimed: every request carries 'Bearer ' + the stored token.
EveryRequestCarriesToken ==
    [][lastOp' = "api_request" =>
         (authToken # Null /\ apiEvent'.header = Bearer(authToken))]_vars

\* C9: a request sent while a token is stored carries 'Bearer ' + that token;
\* a request sent while none is stored carries no Authorization header.
RequestCarriesStoredToken ==
    [][lastOp' = "api_request" =>
         /\ authToken # Null => apiEvent'.header = <<"Bearer", authToken>>
         /\ authToken = Null => apiEvent'.header = NoHeader]_vars

RequestSentWithToken ==
    /\ lastOp = "api_request" /\ authToken # Null
    /\ apiEvent.kind = "sent" /\ apiEvent.header = <<"Bearer", authToken>>

TimeTravelInit ==
    /\ selectedEntityId = ""
    /\ selectedTimestamp = 0
    /\ eventCount = 1
    /\ viewMode = "timestamp"
    /\ isPlaying = FALSE
    /\ playbackSpeed = 1000
    /\ timelineCache = [e \in Entities |-> Undefined]
    /\ interval = NoInterval
    /\ lastOp = "init"
    /\ prevJump = "none"
    /\ stateQueries = {}

\* The session right after a successful sign-in.
SignedInInit ==
    /\ authToken = Jwt(MaxExp)
    /\ user = Profile
    /\ nowMs = 0
    /\ page = "protected"
    /\ inflight = {}
    /\ apiEvent = NoApiEvent
    /\ since401 = FALSE

QueryInit ==
    /\ TimeTravelInit
    /\ SignedInInit
    /\ nodeEnv \in {"development", "production"}
    /\ ExtInit

QueryNext ==
    \/ \E key \in QueryKeys : QueryFetch(key)
    \/ \E key \in QueryKeys, outcome \in Outcomes : QueryResponse(key, outcome)

QuerySpec == QueryInit /\ [][QueryNext]_vars

\* C11: a fetch that failed with a 4xx response is never automatically
\* re-attempted, a fetch that failed with a network error is re-attempted at
\* most once, and the API client never re-sends a request itself (every
\* request of a fetch beyond the first is a re-attempt of the cache).
RetryOnlyOnceAndNeverOn4xx ==
    /\ (qEvent.kind = "response" /\ qEvent.outcome = "unauthorized")
          => ~qEvent.retried
    /\ \A k \in QueryKeys : requests[k] <= 2

NotifOutcomes == Outcomes \ {"unauthorized"}

NotifInit ==
    /\ TimeTravelInit
    /\ SignedInInit
    /\ nodeEnv = "development"
    /\ ExtInit

NotifNext ==
    \/ NotificationsMount
    \/ NotificationsUnmount
    \/ \E f \in NotifFilters : NotificationsSetFilter(f)
    \/ \E key \in NotifKeys : QueryFetch(key)
    \/ \E key \in NotifKeys, outcome \in {"ok", "network"} : QueryResponse(key, outcome)
    \/ \E fn \in MutationFunctions : MutationRequest(fn)
    \/ \E fn \in MutationFunctions, outcome \in NotifOutcomes :
          MutationResponse(fn, outcome)

NotifSpec == NotifInit /\ [][NotifNext]_vars

\* The mutations that settled in a step, and whether the step failed them.
Settled == pendingMutations \ pendingMutations'

MutationFailed == Settled # {} /\ serverVersion' = serverVersion

MutationSucceeded == Settled # {} /\ serverVersion' = serverVersion + 1

\* C13: whenever a user-initiated action fails - here a notification mutation
\* (mark read, mark all read, delete) triggered from the Notifications page -
\* the page, while it is on screen, is in a visible error state.
FailedActionShowsError ==
    [][(MutationFailed /\ notifMounted') => ShowsError(queries', notifFilter')]_vars

StreamInit ==
    /\ TimeTravelInit
    /\ SignedInInit
    /\ nodeEnv = "development"
    /\ CacheInit
    /\ NotificationsInit
    /\ route = "/streams"
    /\ EventStreamsInit
    /\ tz = 0
    /\ serverEvents = << >>
    /\ AnalyticsInit
    /\ users = << >>
    /\ SearchInit
    /\ RestInit

StreamNext ==
    \/ \E e \in Entities : StreamSelectEntity(e)
    \/ handleStartStreaming
    \/ handleStopStreaming
    \/ StreamTick
    \/ handleResetStream
    \/ handlePreviousBatch
    \/ handleNextBatch
    \/ \E newSize \in BatchSizes : handleBatchSizeChange(newSize)
    \/ \E hasMore \in BOOLEAN, ofRunningFetch \in BOOLEAN :
          StreamResponse(hasMore, ofRunningFetch)

StreamSpec == StreamInit /\ [][StreamNext]_vars

Pages == {"/time-travel", "/streams"}

PagesNext ==
    \/ Next
    \/ StreamNext
    \/ \E to \in Pages : Navigate(to)

PagesSpec == Init /\ [][PagesNext]_vars

\* C15: the cache layer has at most one fetch in flight per cache key: a
\* manual refetch - the streaming refetch that fires every 3 s included -
\* that finds the previous request for the same batch unanswered is
\* deduplicated, so no second request for that key goes out.
OneRequestPerKey == batchHttp <= 1

\* What each page needs a timer for.
StreamingWanted ==
    route = "/streams" /\ isStreaming /\ streamEntity # ""

PlaybackWanted ==
    /\ route = "/time-travel"
    /\ isPlaying /\ viewMode = "eventCount" /\ HasEvents(CurrentTimeline)

\* C16: interval timers live exactly as long as their view needs them.  The
\* 3 s streaming timer exists iff streaming is on and an entity is selected,
\* the playback timer iff playing in event-count mode with a loaded timeline;
\* there is never more than one of a kind; and a timer-driven refetch or
\* cursor change happens only while its timer is wanted, so none happens
\* after stop or unmount.
TimersLiveAsLongAsNeeded ==
    /\ [](/\ streamTimers = (IF StreamingWanted THEN 1 ELSE 0)
          /\ (interval # NoInterval) <=> PlaybackWanted)
    /\ [][/\ StreamTick => StreamingWanted
          /\ Tick => PlaybackWanted]_vars

StreamingTimerRefetched ==
    /\ StreamingWanted
    /\ streamTimers = 1
    /\ lastOp = "stream_tick"
    /\ batchQuery.fetchStatus = "fetching"
    /\ timelineCache["u1"] # Undefined

\* ---------------------------------------------------------------------------
\* Specification of the Analytics page: any events on the server, any time
\* zone of the browser
\* ---------------------------------------------------------------------------
AnalyticsPageInit ==
    /\ TimeTravelInit
    /\ SignedInInit
    /\ nodeEnv = "development"
    /\ CacheInit
    /\ NotificationsInit
    /\ route = "/analytics"
    /\ EventStreamsInit
    /\ tz \in TzOffsets
    /\ serverEvents \in EventLists
    /\ AnalyticsInit
    /\ users = << >>
    /\ SearchInit
    /\ RestInit

AnalyticsNext ==
    \/ \E start \in DateInputs, end \in DateInputs : SetDateRange(start, end)
    \/ \E legacy \in BOOLEAN : AnalyticsFetched(legacy)

AnalyticsSpec == AnalyticsPageInit /\ [][AnalyticsNext]_vars

RangeStart == ParseDateInput(dateRange.start)

RangeEnd == ParseDateInput(dateRange.end)

\* C17: the date-range filter keeps an event iff from <= timestamp <= to,
\* both bounds included; an event whose timestamp cannot be parsed is left
\* out without raising; the kept events keep their order; and an empty input
\* list yields an empty list.
DateRangeFilterInclusive ==
    analyticsData.loaded =>
        LET kept == {j \in 1..Len(serverEvents) :
                        /\ serverEvents[j].timestamp.valid
                        /\ RangeStart.valid /\ RangeEnd.valid
                        /\ RangeStart.time <= serverEvents[j].timestamp.time
                        /\ serverEvents[j].timestamp.time <= RangeEnd.time}
            out == analyticsData.eventsInRange
        IN  /\ Len(out) = Cardinality(kept)
            /\ \A i \in 1..Len(out) :
                  \E j \in kept :
                      /\ out[i] = serverEvents[j]
                      /\ i = Cardinality({k \in kept : k <= j})
            /\ serverEvents = << >> => out = << >>

EventOnBothBoundsKept ==
    /\ analyticsData.loaded
    /\ dateRange = [start |-> DateInput(0), end |-> DateInput(1)]
    /\ Len(serverEvents) = 2
    /\ serverEvents[1].timestamp = Date(2)
    /\ serverEvents[2].timestamp = Date(0)
    /\ analyticsData.eventsInRange = serverEvents

RECURSIVE SumOf(_)
SumOf(counts) == IF counts = << >> THEN 0 ELSE Head(counts) + SumOf(Tail(counts))

SearchPageInit ==
    /\ TimeTravelInit
    /\ SignedInInit
    /\ nodeEnv = "development"
    /\ CacheInit
    /\ NotificationsInit
    /\ route = "/streams"
    /\ EventStreamsInit
    /\ tz = 0
    /\ serverEvents = << >>
    /\ AnalyticsInit
    /\ users \in UserLists
    /\ SearchInit
    /\ RestInit

SearchNext == \E term \in Words : SetSearchTerm(term)

SearchSpec == SearchPageInit /\ [][SearchNext]_vars

\* C18: the free-text filter keeps a record iff the lower-cased query is a
\* substring of at least one of its lower-cased displayed fields, and with the
\* empty query it returns the input list unchanged - every record kept, in
\* the same order - for every input list, records with missing fields
\* included.
FreeTextFilterKeepsMatches ==
    /\ ~filteredUsers.threw
    /\ searchTerm = << >> => filteredUsers.value = users
    /\ filteredUsers.value =
          SelectSeq(users, LAMBDA u :
              \E field \in {u.name, u.email} :
                  /\ field # MissingField
                  /\ Includes(ToLowerCase(field), ToLowerCase(searchTerm)))

\* C20: every filtering and aggregation function - the date-range filter, the
\* event-type filter, the free-text filter, group-by-type and group-by-day -
\* is total: given an empty input list it produces an empty result and never
\* throws, for every date range the user can enter, start later than end
\* included.
EmptyInputYieldsEmptyResults ==
    /\ (analyticsData.loaded /\ serverEvents = << >>) =>
          /\ analyticsData.eventsInRange = << >>
          /\ processedData.kind = "value"
          /\ processedData.eventTypeData = << >>
          /\ processedData.eventsOverTime = << >>
    /\ \A eventTypeFilter \in EventNames \cup {"all"} :
          EventTypeFilter(<< >>, eventTypeFilter) = << >>
    /\ \A term \in Words :
          FilteredUsers(<< >>, term) = [threw |-> FALSE, value |-> << >>]

\* ---------------------------------------------------------------------------
\* Specification of the Settings page
\* ---------------------------------------------------------------------------
SettingsPageInit ==
    /\ TimeTravelInit
    /\ SignedInInit
    /\ nodeEnv = "development"
    /\ CacheInit
    /\ NotificationsInit
    /\ route = "/settings"
    /\ EventStreamsInit
    /\ tz = 0
    /\ serverEvents = << >>
    /\ AnalyticsInit
    /\ users = << >>
    /\ SearchInit
    /\ RestInit

SettingsNext ==
    \/ \E next \in SettingsValues : SetSettings(next)
    \/ handleReset
    \/ handleExportSettings
    \/ \E valid \in BOOLEAN : handleImportSettings(valid)

SettingsSpec == SettingsPageInit /\ [][SettingsNext]_vars

\* C21: exporting the settings and then importing the exported file yields a
\* settings object identical to the exported one, whatever was changed in the
\* in-memory settings between the export and the import.
ExportImportRoundTrips ==
    lastOp = "import_settings" => settings = exportFile.exported

\* ---------------------------------------------------------------------------
\* Specification of an editable JSON viewer, as a component on its own: the
\* pages that embed it (Event Replay, State Comparison) have no route
\* ---------------------------------------------------------------------------
ViewerSpecInit ==
    /\ TimeTravelInit
    /\ SignedInInit
    /\ nodeEnv = "development"
    /\ CacheInit
    /\ NotificationsInit
    /\ route = "/time-travel"
    /\ EventStreamsInit
    /\ tz = 0
    /\ serverEvents = << >>
    /\ AnalyticsInit
    /\ users = << >>
    /\ SearchInit
    /\ SettingsInit
    /\ \E data \in JsonValues, hasOnSave \in BOOLEAN :
          viewer = ViewerMounted(data, hasOnSave)
    /\ onSaveCalls = << >>
    /\ ApiCallInit
    /\ TimelineInit
    /\ TotalInit
    /\ NotifPagingInit

ViewerNext ==
    \/ handleEdit
    \/ \E text \in JsonTexts : SetEditedData(text)
    \/ handleSave
    \/ handleCancel
    \/ \E pretty \in BOOLEAN : ReformatJson(pretty)

ViewerSpec == ViewerSpecInit /\ [][ViewerNext]_vars

\* C22: in the editable JSON viewer, saving a text that is not valid JSON
\* sets the inline error, keeps the viewer in edit mode with the entered
\* text, and does not invoke onSave; onSave is invoked only by a save of valid
\* JSON, with the parsed value of the text.
InvalidJsonIsNotSaved ==
    [][/\ (lastOp' = "viewer_save" /\ JsonParseText(viewer.editedData).threw) =>
             /\ viewer'.error
             /\ viewer'.isEditing
             /\ viewer'.editedData = viewer.editedData
             /\ onSaveCalls' = onSaveCalls
       /\ onSaveCalls' # onSaveCalls =>
             /\ lastOp' = "viewer_save"
             /\ ~JsonParseText(viewer.editedData).threw
             /\ onSaveCalls' = Append(onSaveCalls, JsonParseText(viewer.editedData).value)]_vars

InvalidJsonSaveRejected ==
    /\ lastOp = "viewer_save"
    /\ viewer.hasOnSave
    /\ viewer.error /\ viewer.isEditing
    /\ viewer.editedData = <<"[", "1">>
    /\ onSaveCalls = << >>

\* ---------------------------------------------------------------------------
\* Specification of one API call: any function, any body
\* ---------------------------------------------------------------------------
EnvelopeInit ==
    /\ TimeTravelInit
    /\ SignedInInit
    /\ nodeEnv = "development"
    /\ DataPagesInit
    /\ SettingsInit
    /\ ViewerInit
    /\ \E fn \in ApiFunctions, body \in Bodies :
          apiCall = [fn |-> fn, body |-> body, returned |-> "pending"]
    /\ TimelineInit
    /\ TotalInit
    /\ NotifPagingInit

EnvelopeSpec == EnvelopeInit /\ [][ApiReturns]_vars

\* C23: for every API function, when the HTTP body is the envelope
\* {success, data, timestamp} the function returns exactly the envelope's data
\* field, for every value of data; when the body is a bare payload it returns
\* the body itself.
EnvelopeUnwrapped ==
    apiCall.returned # "pending" =>
        apiCall.returned = (IF apiCall.body.shape = "envelope" THEN "data" ELSE "body")

\* ---------------------------------------------------------------------------
\* Specification of the Event Timeline page: any data of two selected users
\* ---------------------------------------------------------------------------
TimelinePageInit ==
    /\ TimeTravelInit
    /\ SignedInInit
    /\ nodeEnv = "development"
    /\ CacheInit
    /\ NotificationsInit
    /\ route = "/timelinePage"
    /\ EventStreamsInit
    /\ tz = 0
    /\ serverEvents = << >>
    /\ AnalyticsInit
    /\ users = << >>
    /\ SearchInit
    /\ SettingsInit
    /\ ViewerInit
    /\ ApiCallInit
    /\ \E data \in TimelineDatas : timelinePage = TimelineMounted(data)
    /\ TotalInit
    /\ NotifPagingInit

TimelineNext ==
    \/ \E f \in EventNames \cup {"all"} : SetEventTypeFilter(f)
    \/ \E term \in Words : SetTimelineSearch(term)

TimelineSpec == TimelinePageInit /\ [][TimelineNext]_vars

\* C24: the combined timelinePage of the selected users is sorted by timestamp,
\* newest first; the event-type and search filters keep that order; and the
\* events of one user that have equal timestamps stay in the order the server
\* gave them.
TimelineNewestFirst ==
    LET all == AllEvents(timelinePage.data)
        shown == FilteredEvents(timelinePage)
        Ordered(list) ==
            \A i, j \in 1..Len(list) :
                i < j =>
                  /\ list[i].timestamp >= list[j].timestamp
                  /\ (list[i].timestamp = list[j].timestamp /\ list[i].userId = list[j].userId)
                        => list[i].pos < list[j].pos
    IN  /\ Ordered(all)
        /\ Ordered(shown)
        /\ Len(all) = Len(FlatMap(timelinePage.data, 1))
        /\ \A i, j \in 1..Len(shown) :
              i < j => \E k, l \in 1..Len(all) :
                          k < l /\ all[k] = shown[i] /\ all[l] = shown[j]

TiedEventsFiltered ==
    /\ lastOp = "set_timeline_search"
    /\ timelinePage.searchTerm = <<"a", "b">>
    /\ Len(timelinePage.data[1]) = 2 /\ Len(timelinePage.data[2]) = 1
    /\ timelinePage.data[1][1].timestamp = timelinePage.data[1][2].timestamp
    /\ timelinePage.data[1][1].eventName # timelinePage.data[1][2].eventName
    /\ timelinePage.data[2][1].timestamp > timelinePage.data[1][1].timestamp
    /\ Len(FilteredEvents(timelinePage)) = 2

\* ---------------------------------------------------------------------------
\* Specification of the calls of getTotalEventsCount
\* ---------------------------------------------------------------------------
TotalSpecInit ==
    /\ TimeTravelInit
    /\ SignedInInit
    /\ nodeEnv = "development"
    /\ DataPagesInit
    /\ RestInit

TotalNext ==
    \/ GetTotalEventsCount
    \/ \E outcome \in Outcomes, n \in 0..MaxUsers : TotalUsersResponse(outcome, n)
    \/ \E outcome \in Outcomes, body \in EventsBodies : TotalEventsResponse(outcome, body)

TotalSpec == TotalSpecInit /\ [][TotalNext]_vars

\* C25: getTotalEventsCount never rejects: it returns the sum of the
\* event-list lengths over exactly the users whose event fetch succeeded - a
\* failing user adds 0 and does not stop the loop - and it returns
\* totalEvents = 0 when the listing of the users itself fails.
TotalCountNeverRejects ==
    /\ [](/\ totalCount.settled # "rejected"
          /\ totalCount.phase = "returned" =>
                /\ totalCount.settled = "resolved"
                /\ totalCount.result =
                      SumOf([i \in 1..Len(totalCount.fetches) |->
                                IF /\ totalCount.fetches[i].outcome = "ok"
                                   /\ totalCount.fetches[i].body.isArray
                                THEN totalCount.fetches[i].body.length ELSE 0])
                /\ totalCount.listingFailed => totalCount.result = 0
                /\ ~totalCount.listingFailed => Len(totalCount.fetches) = totalCount.users)
    /\ [][(/\ Len(totalCount'.fetches) = Len(totalCount.fetches) + 1
            /\ totalCount'.fetches[Len(totalCount'.fetches)].outcome # "ok") =>
             /\ totalCount'.totalEvents = totalCount.totalEvents
             /\ totalCount'.phase = "events" \/ totalCount'.settled = "resolved"]_vars

TotalSkipsFailedUser ==
    /\ totalCount.phase = "returned"
    /\ lastOp = "total_events"
    /\ since401
    /\ totalCount.users = MaxUsers
    /\ totalCount.fetches[1].outcome = "unauthorized"
    /\ totalCount.result = MaxEventList

\* ---------------------------------------------------------------------------
\* pages/TimeTravel: the state-at-time query.  The query client keeps one query
\* per query key; a query holds the request its queryFn sent and, once the
\* response is in, the data.  useQuery returns the data of the query of the
\* key of the current render.
\* ---------------------------------------------------------------------------
StateQueryKeyWithoutCursor(entityId, timestamp, count, mode) ==
    <<"state-at-time", entityId, timestamp, 1, mode>>

\* queryKey: ['state-at-time', selectedEntityId, selectedTimestamp, eventCount, viewMode]
StateQueryKey(entityId, timestamp, count, mode) ==
    <<"state-at-time", entityId, timestamp, count, mode>>

\* queryFn: the request it sends with the values of the render that made it
StateQueryFn(entityId, timestamp, count, mode) ==
    IF mode = "timestamp"
    THEN [fn |-> "getStateAtTime", entityId |-> entityId, arg |-> timestamp]
    ELSE [fn |-> "getStateAfterEvents", entityId |-> entityId, arg |-> count]

\* The EventSourcingResult the server computes for a request
StateResponse(request) == [currentState |-> request]

CurrentStateKey ==
    StateQueryKey(selectedEntityId, selectedTimestamp, eventCount, viewMode)

\* useQuery on a render: enabled: !!selectedEntityId; a key the cache does not
\* hold gets a query, and the query fetches
ObserveState(cached, entityId, timestamp, count, mode) ==
    LET key == StateQueryKey(entityId, timestamp, count, mode) IN
    IF entityId = "" \/ \E q \in cached : q.queryKey = key
    THEN cached
    ELSE cached \cup {[queryKey |-> key,
                       request |-> StateQueryFn(entityId, timestamp, count, mode),
                       fetching |-> TRUE,
                       data |-> Undefined]}

\* const { data: stateAtTime } = useQuery(...)
StateAtTime ==
    IF \E q \in stateQueries : q.queryKey = CurrentStateKey
    THEN (CHOOSE q \in stateQueries : q.queryKey = CurrentStateKey).data
    ELSE Undefined

\* A handler changes the selection and the render that follows observes the
\* query of the new key.
StateSelectionStep ==
    /\ \/ \E e \in Entities \cup {""} : SelectEntity(e)
       \/ \E m \in {"timestamp", "eventCount"} : SetViewMode(m)
       \/ \E minute \in 0..1 : SetSelectedTimestamp(minute)
       \/ \E v \in 1..MaxEvents : SliderChange(v)
       \/ handlePlayPause
       \/ handleStepForward
       \/ handleStepBackward
       \/ handleJumpToStart
       \/ handleJumpToEnd
       \/ Tick
    /\ stateQueries' = ObserveState(stateQueries, selectedEntityId', selectedTimestamp',
                                    eventCount', viewMode')
    /\ Cardinality(stateQueries') <= MaxStateQueries

\* The response of a query's request arrives, whichever query it is.
StateFetched(q) ==
    /\ q \in stateQueries
    /\ q.fetching
    /\ stateQueries' = (stateQueries \ {q}) \cup
                       {[q EXCEPT !.fetching = FALSE, !.data = StateResponse(q.request)]}
    /\ lastOp' = "state_loaded"
    /\ UNCHANGED <<selectedEntityId, selectedTimestamp, eventCount, viewMode,
                   isPlaying, playbackSpeed, timelineCache>>
    /\ Render

\* A query no render observes and that is not fetching is garbage collected.
StateCollected(q) ==
    /\ q \in stateQueries
    /\ q.queryKey # CurrentStateKey
    /\ ~q.fetching
    /\ stateQueries' = stateQueries \ {q}
    /\ UNCHANGED <<selectedEntityId, selectedTimestamp, eventCount, viewMode,
                   isPlaying, playbackSpeed, timelineCache, interval, prevJump, lastOp>>
    /\ UNCHANGED authVars
    /\ UNCHANGED extVars

\* The page with the timelines of two events loaded and no state fetched yet
StateSpecInit ==
    /\ selectedEntityId = ""
    /\ selectedTimestamp = 0
    /\ eventCount = 1
    /\ viewMode = "timestamp"
    /\ isPlaying = FALSE
    /\ playbackSpeed = 1000
    /\ timelineCache = [e \in Entities |-> ServerTimeline(2)]
    /\ interval = NoInterval
    /\ lastOp = "init"
    /\ prevJump = "none"
    /\ stateQueries = {}
    /\ SignedInInit
    /\ nodeEnv = "development"
    /\ ExtInit

StateNext ==
    \/ StateSelectionStep
    \/ \E q \in stateQueries : StateFetched(q)
    \/ \E q \in stateQueries : StateCollected(q)

StateSpec == StateSpecInit /\ [][StateNext]_vars

\* C26: the state the page displays was fetched for the current selection: it is
\* the answer to the request of the selected entity with the selected timestamp
\* (timestamp mode) or the current cursor (event-count mode), whatever the order
\* in which the responses of earlier selections arrive.
DisplayedStateIsOfCurrentSelection ==
    StateAtTime # Undefined =>
        /\ StateAtTime.currentState.entityId = selectedEntityId
        /\ viewMode = "timestamp" =>
               /\ StateAtTime.currentState.fn = "getStateAtTime"
               /\ StateAtTime.currentState.arg = selectedTimestamp
        /\ viewMode = "eventCount" =>
               /\ StateAtTime.currentState.fn = "getStateAfterEvents"
               /\ StateAtTime.currentState.arg = eventCount

\* The response of an earlier cursor arrives after the one of the current cursor.
EarlierCursorResponseArrivedLast ==
    /\ lastOp = "state_loaded"
    /\ viewMode = "eventCount"
    /\ StateAtTime # Undefined
    /\ \E q \in stateQueries :
          /\ q.queryKey # CurrentStateKey
          /\ q.data # Undefined
          /\ q.request.fn = "getStateAfterEvents"
          /\ q.request.entityId = selectedEntityId
          /\ q.request.arg # eventCount

\* ---------------------------------------------------------------------------
\* Properties of the stored session
\* ---------------------------------------------------------------------------
\* C27: whenever 'authToken' is removed from storage (sign-out, the route guard,
\* a 401 response), 'user' is removed as well: after the removal storage holds
\* no profile.
ProfileRemovedWithToken ==
    [][(authToken # Null /\ authToken' = Null) => user' = Null]_vars

\* C28: the route guard fails closed: when the stored token cannot be decoded
\* (it has not three parts, or its payload is not base64, or not JSON), the
\* guard redirects to the sign-in page and removes the token.
GuardFailsClosed ==
    [][(/\ lastOp' = "navigate"
        /\ authToken # Null
        /\ \/ Len(authToken) # 3
           \/ ~authToken[2].base64
           \/ ~authToken[2].json)
       => (page' = "/login" /\ authToken' = Null)]_vars

NotifPagingSpecInit ==
    /\ TimeTravelInit
    /\ SignedInInit
    /\ nodeEnv = "development"
    /\ DataPagesInit
    /\ SettingsInit
    /\ ViewerInit
    /\ ApiCallInit
    /\ TimelineInit
    /\ TotalInit
    /\ \E unread \in {0, 1, PageSize + 1} :
          notifPaging = [page |-> 1, all |-> PageSize + 1, unread |-> unread,
                         data |-> NoListData]

NotifPagingNext ==
    \/ ListFetched
    \/ handleNextPage
    \/ handlePrevPage
    \/ \E f \in NotifFilters : handleFilterTab(f)
    \/ \E wasUnread \in BOOLEAN : handleDelete(wasUnread)
    \/ handleMarkAsRead

NotifPagingSpec == NotifPagingSpecInit /\ [][NotifPagingNext]_vars

\* C30: the page number is >= 1 and addresses an existing page: whenever the
\* list on screen has a total > 0, (page - 1) * 20 < total, also after a
\* deletion or a re-fetch lowered the total.
PageAddressesExistingPage ==
    /\ notifPaging.page >= 1
    /\ (notifPaging.data.loaded /\ notifPaging.data.total > 0) =>
           (notifPaging.page - 1) * PageSize < notifPaging.data.total

====
